---- MODULE Spec2Model ----
(***************************************************************************)
(* The storage bucket resource of the provider                             *)
(* (yandex/resource_yandex_storage_bucket.go) as a state machine: the host *)
(* invokes Create, Read, Update or Delete; every step of a call sends one  *)
(* request to the object storage (S3) or to the storage API (gRPC) and the *)
(* server's answer is chosen by the environment.                           *)
(***************************************************************************)
EXTENDS Integers, Sequences, FiniteSets, TLC

----------------------------------------------------------------------------
(* Bounds of the model *)

\* attempts of one request that fit into the time budget of resource.Retry
MaxAttempts == 2
\* the recursion depth of Delete is counted up to this value and then kept
MaxDepth == 2

(* Program constants *)

\* rounds of waitConditionStable
StableRounds == 12
\* consecutive checks of one round of waitConditionStable
StableChecks == 10

\* the bucket name used as the resource identifier
Bucket == "abc"

Min(a, b) == IF a < b THEN a ELSE b

----------------------------------------------------------------------------
(* Errors.  kind: "nil" (no error), "aws" (awserr.Error of the S3 client),  *)
(* "grpc" (status error of an API call), "operation" (error an operation   *)
(* ended with), "timeout", "cancelled", "validation", "client", "plain".    *)
(* status is the HTTP status of an awserr.RequestFailure, 0 when the error  *)
(* is no RequestFailure.  wrap tells how the error was wrapped on the way   *)
(* up: "none", "text" (fmt.Errorf with %s) or "chain" (%w).                 *)

Err(kind, code, status, msg) ==
    [kind |-> kind, code |-> code, status |-> status, msg |-> msg, wrap |-> "none"]

Nil == Err("nil", "", 0, "")
OK == Nil
\* a request answered with a configuration that is not the one that was put
Stale == Err("nil", "stale", 0, "")

IsErr(e) == e.kind # "nil"

Aws(code, status) == Err("aws", code, status, "")
Grpc(code) == Err("grpc", code, 0, "")
Plain(msg) == Err("plain", "", 0, msg)
Validation(msg) == Err("validation", "", 0, msg)

\* fmt.Errorf("...: %s", err)
WrapText(e) == [e EXCEPT !.wrap = "text"]
\* fmt.Errorf("...: %w", err)
WrapChain(e) == [e EXCEPT !.wrap = IF e.wrap = "text" THEN "text" ELSE "chain"]

NoSuchBucket == Aws("NoSuchBucket", 404)
NotFound404 == Aws("NotFound", 404)
AccessDenied == Aws("AccessDenied", 403)
Forbidden == Aws("Forbidden", 403)
BucketNotEmpty == Aws("BucketNotEmpty", 409)
InternalError == Aws("InternalError", 500)
\* the request could not be sent or answered: no RequestFailure
RequestError == Aws("RequestError", 0)

\* strings.Contains(err.Message(), message) for the messages of the model
Contains(msg, part) == part = "" \/ msg = part

isAWSErr(err, code, message) ==
    err.kind = "aws" /\ err.wrap = "none" /\ err.code = code /\ Contains(err.msg, message)

\* err.(awserr.RequestFailure) with StatusCode() == 404
isRequestFailure404(err) ==
    err.kind = "aws" /\ err.wrap = "none" /\ err.status = 404

----------------------------------------------------------------------------
VARIABLES
    id,         \* d.Id(): "" or the bucket name
    isNew,      \* d.IsNewResource()
    call,       \* the call of the host in progress or finished last
    cfg,        \* the configuration the call reads
    pc,         \* the position of the call; "done" when it has returned
    result,     \* the error the call returned, Nil for success
    lastReq,    \* the last request sent during the call, "none" before the first
    lastAns,    \* the server's answer to it
    tick,       \* flips whenever a request is sent during a call
    sent,       \* some request was sent during the call
    failed,     \* <<request, code>> when the last request ended in an error, else << >>
    attempt,    \* attempts already made of the request at pc
    depth,      \* recursion depth of Delete, kept at MaxDepth once reached
    checks,     \* waitConditionStable: rounds finished
    subchecks,  \* waitConditionStable: checks of the round that returned true
    step,       \* index of the request of ReadBasic, of the property of UpdateBasic
    bucket,     \* d.Get("bucket")
    arg,        \* the value of the property whose handler runs
    plan,       \* the requests the handler has still to send
    opSrv,      \* the operation on the server: state, error, payload
    seen,       \* the state of the operation the last status poll returned
    elapsed,    \* polling intervals elapsed since the context of the wait was made
    deadline,   \* the deadline of that context in polling intervals, NoDeadline if none
    cancelled,  \* the context has been cancelled
    waitFor,    \* the request whose operation the call waits on
    waitErr,    \* what waitOperation returned
    pollErrs,   \* failed status polls of the wait
    changes,    \* UpdateExtended: the extended properties d.HasChange tells changed
    update,     \* UpdateExtended: the UpdateBucketRequest it has built
    attrs,      \* the values in d of the attributes the server does not return
    wrote,      \* the attributes the last step of Read has set in d
    maxRetries, \* sweepWithRetryByFunc: conf.MaxRetries
    try,        \* sweepWithRetryByFunc: the loop counter i
    sfErrs,     \* sweepWithRetryByFunc: what the calls of sf returned, in their order
    swept,      \* sweepWithRetryByFunc: what it returned, "none" while it runs
    config,     \* setDefaults: the provider configuration it is given
    osEnv,      \* setDefaults: the environment variables
    defaulted,  \* setDefaults: the configuration it returned, NoState before
    instance,   \* the network interfaces of the instance that is flattened
    flatInstance, \* what flattenInstanceNetworkInterfaces returned, NoFlat before
    flatManaged, \* what flattenInstanceGroupManagedInstanceNetworkInterfaces returned
    rules,      \* the security group rules that are flattened
    flatRules,  \* << >>, or <<the set flattenSecurityGroupRulesSpec returned>>
    sweeper,    \* the sweeper that runs: "none", "clickhouse" or "billing"
    listed,     \* the identifiers of the resources the listing yields
    at,         \* the index in listed of the resource the loop is at
    spc,        \* the position of the sweeper run
    unswept,    \* the resources sweepWithRetry returned false for
    hso,        \* the last call of handleSweepOperation
    ret,        \* what the sweeper returned
    sdkData,    \* the settings of the resource CreateBySDK reads
    request,    \* the CreateBucketRequest CreateBySDK built
    tagsOldRaw, \* d.GetChange("tags"): the old value
    tagsNewRaw, \* d.GetChange("tags"): the new value
    invoked,    \* the callbacks HandleTagsUpdate invoked, in order
    tagsErr,    \* what HandleTagsUpdate returned
    nchecks,    \* the calls of check waitConditionStable has made
    streak,     \* the last calls of check that returned true in a row
    checked,    \* what the last call of check returned
    stableErr,  \* what waitConditionStable returned
    grantData,  \* the settings GrantsUpdate reads: acl and the list of the grants
    gpc,        \* the position of GrantsUpdate
    aclOwner,   \* the owner GetBucketAcl returned
    puts,       \* the PutBucketAcl requests that were sent, in order
    grantsErr   \* what GrantsUpdate returned

reqVars == <<lastReq, lastAns, tick, sent, failed>>
stableVars == <<checks, subchecks>>
basicVars == <<bucket, arg, plan>>
waitVars == <<opSrv, seen, elapsed, deadline, cancelled, waitFor, waitErr, pollErrs>>
extVars == <<changes, update>>
dataVars == <<attrs, wrote>>
sweepVars == <<maxRetries, try, sfErrs, swept>>
defaultsVars == <<config, osEnv, defaulted>>
nicVars == <<instance, flatInstance, flatManaged>>
ruleVars == <<rules, flatRules>>
runVars == <<sweeper, listed, at, spc, unswept, hso, ret>>
sdkVars == <<sdkData, request>>
tagVars == <<tagsOldRaw, tagsNewRaw, invoked, tagsErr>>
checkVars == <<nchecks, streak, checked, stableErr>>
grantVars == <<grantData, gpc, aclOwner, puts, grantsErr>>
fnVars == <<sweepVars, defaultsVars, nicVars, ruleVars, runVars, sdkVars, tagVars,
            checkVars, grantVars>>

vars == <<id, isNew, call, cfg, pc, result, attempt, depth, step,
          reqVars, stableVars, basicVars, waitVars, extVars, dataVars, fnVars>>

\* the variables of the storage bucket resource
bucketVars == <<id, isNew, call, cfg, pc, result, attempt, depth, step,
                reqVars, stableVars, basicVars, waitVars, extVars, dataVars>>

\* force: force_destroy; client: getS3Client succeeds; folder: folder_id is set
Configs == [force : BOOLEAN, client : BOOLEAN, folder : BOOLEAN]

\* the settings a call does not read are left at false
ConfigsFor(op) ==
    {c \in Configs : (op # "Delete" => ~c.force) /\ (op # "Create" => ~c.folder)}

\* the value of a property: what the handler tells apart, and the permission sets
\* of its grants
Val(v) == [v |-> v, grants |-> {}]
NoArg == Val("none")

\* an operation: state "none", "running" or "done"; err and payload once done
Op(state, err, payload) == [state |-> state, err |-> err, payload |-> payload]
NoOp == Op("none", Nil, "")
Running == Op("running", Nil, "")

\* a context without a deadline
NoDeadline == -1

\* the attributes of the schema that no answer of the server carries
LocalAttributes == {"access_key", "secret_key", "force_destroy", "bucket_prefix", "acl"}

\* their values in d: all unset, or all configured
LocalValues == {[a \in LocalAttributes |-> v] : v \in {"", "configured"}}

\* an UpdateBucketRequest: the paths of its update mask and the fields that were set
UpdateBucketRequest(paths, fields) == [paths |-> paths, fields |-> fields]
NoUpdate == UpdateBucketRequest({}, {})

\* no sweep is running
NoSweep ==
    /\ maxRetries = 0
    /\ try = 1
    /\ sfErrs = << >>
    /\ swept = "none"

\* no provider configuration
NoState == [Endpoint |-> "none"]

\* setDefaults is not at work
NoDefaults ==
    /\ config = NoState
    /\ osEnv = << >>
    /\ defaulted = NoState

\* nothing returned yet
NoFlat == [nics |-> << >>, externalIP |-> "none", internalIP |-> "none"]

\* no instance is flattened
NoInstance ==
    /\ instance = << >>
    /\ flatInstance = NoFlat
    /\ flatManaged = NoFlat

\* no rules are flattened
NoRules ==
    /\ rules = << >>
    /\ flatRules = << >>

\* the sweeper has not returned
NotReturned == Err("running", "", 0, "")

\* handleSweepOperation was not called
NoHandle == [req |-> "none", id |-> "", callErr |-> Nil, waitErr |-> Nil,
             respErr |-> Nil, waited |-> FALSE, err |-> Nil]

\* no sweeper runs
NoRun ==
    /\ sweeper = "none"
    /\ listed = << >>
    /\ at = 1
    /\ spc = "none"
    /\ unswept = {}
    /\ hso = NoHandle
    /\ ret = NotReturned

\* no request was built
NoRequest == [Name |-> ""]

\* CreateBySDK builds no request
NoSDKRequest ==
    /\ sdkData = << >>
    /\ request = NoRequest

\* a value of d.GetChange that is no map
NilMap == [nil |-> TRUE, map |-> << >>]

\* no tags are handled
NoTags ==
    /\ tagsOldRaw = NilMap
    /\ tagsNewRaw = NilMap
    /\ invoked = << >>
    /\ tagsErr = NotReturned

\* check was not called
NotChecked == [ok |-> FALSE, err |-> Nil]

\* no condition is waited for
NoCheck ==
    /\ nchecks = 0
    /\ streak = 0
    /\ checked = NotChecked
    /\ stableErr = NotReturned

\* no grants are updated
NoGrants ==
    /\ grantData = [acl |-> "", grant |-> << >>]
    /\ gpc = "none"
    /\ aclOwner = ""
    /\ puts = << >>
    /\ grantsErr = NotReturned

\* the functions outside the resource are at rest
NoFunction ==
    /\ NoSweep /\ NoDefaults /\ NoInstance /\ NoRules /\ NoRun
    /\ NoSDKRequest /\ NoTags /\ NoCheck /\ NoGrants

BucketInit ==
    /\ id \in {"", Bucket}
    /\ isNew = FALSE
    /\ call = "none"
    /\ cfg \in ConfigsFor("none")
    /\ pc = "done"
    /\ result = Nil
    /\ lastReq = "none"
    /\ lastAns = OK
    /\ tick = 0
    /\ sent = FALSE
    /\ failed = << >>
    /\ attempt = 0
    /\ depth = 0
    /\ checks = 0
    /\ subchecks = 0
    /\ step = 1
    /\ bucket = id
    /\ arg = NoArg
    /\ plan = << >>
    /\ opSrv = NoOp
    /\ seen = "none"
    /\ elapsed = 0
    /\ deadline = NoDeadline
    /\ cancelled = FALSE
    /\ waitFor = "none"
    /\ waitErr = Nil
    /\ pollErrs = 0
    /\ changes = {}
    /\ update = NoUpdate
    /\ attrs \in LocalValues
    /\ wrote = {}

Init == BucketInit /\ NoFunction

\* the resource at rest: no bucket, nothing configured, no call
NoBucket ==
    /\ BucketInit
    /\ id = ""
    /\ cfg = [force |-> FALSE, client |-> TRUE, folder |-> FALSE]
    /\ attrs = [a \in LocalAttributes |-> ""]

----------------------------------------------------------------------------
(* Sending a request *)

\* one attempt of request req answered ans; final: no further attempt follows
Send(req, ans, final) ==
    /\ lastReq' = req
    /\ lastAns' = ans
    /\ tick' = 1 - tick
    /\ sent' = TRUE
    /\ failed' = IF final /\ IsErr(ans) THEN <<req, ans.code>> ELSE << >>

NoSend == UNCHANGED reqVars

\* the call returns err
Return(err) ==
    /\ pc' = "done"
    /\ result' = err

\* resource.Retry around a request: another attempt follows the answer ans
retryOnAwsCodes(codes, ans) ==
    /\ ans.kind = "aws"
    /\ ans.code \in codes
    /\ attempt + 1 < MaxAttempts

FlakyCodes == {"NoSuchBucket", "AccessDenied", "Forbidden"}

retryFlakyS3Responses(ans) == retryOnAwsCodes(FlakyCodes, ans)

----------------------------------------------------------------------------
(* waitConditionStable(check): one call of check().  ok and err are what    *)
(* check returned; the result is "nil", "err", "timeout" or "again".        *)

\* waitConditionStable that is content with one check less
waitConditionStableEarly(ok, err) ==
    IF err # Nil THEN "err"
    ELSE IF ok THEN (IF subchecks + 2 >= StableChecks THEN "nil" ELSE "again")
    ELSE (IF checks + 1 >= StableRounds THEN "timeout" ELSE "again")

waitConditionStable(ok, err) ==
    IF err # Nil THEN "err"
    ELSE IF ok THEN (IF subchecks + 1 >= StableChecks THEN "nil" ELSE "again")
    ELSE (IF checks + 1 >= StableRounds THEN "timeout" ELSE "again")

\* the loop counters after a check that made the loops go on
StableNext(ok) ==
    IF ok THEN /\ subchecks' = subchecks + 1
               /\ checks' = checks
          ELSE /\ subchecks' = 0
               /\ checks' = checks + 1

StableReset ==
    /\ checks' = 0
    /\ subchecks' = 0

----------------------------------------------------------------------------
(* The host starts a call *)

HostCall(op) ==
    /\ pc = "done"
    /\ IF op = "Create" THEN id = "" ELSE id # ""
    /\ call' = op
    /\ cfg' \in ConfigsFor(op)
    /\ isNew' = (op = "Create")
    /\ result' = Nil
    /\ lastReq' = "none"
    /\ lastAns' = OK
    /\ sent' = FALSE
    /\ failed' = << >>
    /\ attempt' = 0
    /\ depth' = 0
    /\ StableReset
    /\ step' = 1
    /\ arg' = NoArg
    /\ plan' = << >>
    /\ opSrv' = NoOp
    /\ seen' = "none"
    /\ elapsed' = 0
    /\ deadline' = NoDeadline
    /\ cancelled' = FALSE
    /\ waitFor' = "none"
    /\ waitErr' = Nil
    /\ pollErrs' = 0
    /\ tick' = 0
    /\ changes' = {}
    /\ update' = NoUpdate
    /\ wrote' = {}
    /\ UNCHANGED <<id, bucket, attrs>>
    /\ UNCHANGED fnVars

----------------------------------------------------------------------------
(* resourceYandexStorageBucketDelete *)

DeleteBucketAnswers ==
    {OK, NoSuchBucket, BucketNotEmpty, AccessDenied, Forbidden, InternalError,
     RequestError}

DeleteRetryCodes == {"AccessDenied", "Forbidden"}

\* DeleteBucketOutcome without the check for NoSuchBucket
DeleteBucketOutcomeGoneIsError(ans, force) ==
    IF isAWSErr(ans, "BucketNotEmpty", "") /\ force THEN "empty"
    ELSE IF ans = Nil THEN "wait"
    ELSE "err"

\* DeleteBucketOutcome that empties the bucket without force_destroy
DeleteBucketOutcomeEmptiesAlways(ans, force) ==
    IF isAWSErr(ans, "NoSuchBucket", "") THEN "nil"
    ELSE IF isAWSErr(ans, "BucketNotEmpty", "") THEN "empty"
    ELSE IF ans = Nil THEN "wait"
    ELSE "err"

\* what Delete does with the answer of DeleteBucket
DeleteBucketOutcome(ans, force) ==
    IF isAWSErr(ans, "NoSuchBucket", "") THEN "nil"
    ELSE IF isAWSErr(ans, "BucketNotEmpty", "") /\ force THEN "empty"
    ELSE IF ans = Nil THEN "wait"
    ELSE "err"

DeleteStart ==
    /\ pc = "done"
    /\ id # ""
    /\ HostCall("Delete")
    /\ pc' = "DeleteBucket"

\* getS3Client failed
DeleteNoClient ==
    /\ call = "Delete" /\ pc = "DeleteBucket"
    /\ ~cfg.client
    /\ Return(WrapText(Err("client", "", 0, "")))
    /\ NoSend
    /\ UNCHANGED <<id, isNew, call, cfg, attempt, depth, step, stableVars, basicVars, waitVars>>
    /\ UNCHANGED extVars
    /\ UNCHANGED dataVars
    /\ UNCHANGED fnVars

DeleteBucket ==
    /\ call = "Delete" /\ pc = "DeleteBucket"
    /\ cfg.client
    /\ \E ans \in DeleteBucketAnswers :
        IF retryOnAwsCodes(DeleteRetryCodes, ans)
        THEN /\ Send("DeleteBucket", ans, FALSE)
             /\ attempt' = attempt + 1
             /\ UNCHANGED <<id, isNew, call, cfg, pc, result, depth, step,
                            stableVars, basicVars, waitVars>>
        ELSE /\ Send("DeleteBucket", ans, TRUE)
             /\ attempt' = 0
             /\ LET out == DeleteBucketOutcome(ans, cfg.force) IN
                  CASE out = "nil" -> Return(Nil)
                    [] out = "empty" -> pc' = "ListObjectVersions" /\ result' = result
                    [] out = "wait" -> pc' = "HeadBucketStable" /\ result' = result
                    [] OTHER -> Return(WrapText(ans))
             /\ UNCHANGED <<id, isNew, call, cfg, depth, step, stableVars, basicVars, waitVars>>
    /\ UNCHANGED extVars
    /\ UNCHANGED dataVars
    /\ UNCHANGED fnVars

ListObjectVersions ==
    /\ call = "Delete" /\ pc = "ListObjectVersions"
    /\ \E ans \in {OK, NoSuchBucket, AccessDenied, InternalError} :
        /\ Send("ListObjectVersions", ans, TRUE)
        /\ IF ans # Nil THEN Return(WrapText(ans))
                        ELSE pc' = "DeleteObjects" /\ result' = result
    /\ UNCHANGED <<id, isNew, call, cfg, attempt, depth, step, stableVars, basicVars, waitVars>>
    /\ UNCHANGED extVars
    /\ UNCHANGED dataVars
    /\ UNCHANGED fnVars

\* on success Delete calls itself
DeleteObjects ==
    /\ call = "Delete" /\ pc = "DeleteObjects"
    /\ \E ans \in {OK, NoSuchBucket, AccessDenied, InternalError} :
        /\ Send("DeleteObjects", ans, TRUE)
        /\ IF ans # Nil
           THEN Return(WrapText(ans)) /\ depth' = depth
           ELSE /\ pc' = "DeleteBucket"
                /\ result' = result
                /\ depth' = Min(depth + 1, MaxDepth)
    /\ UNCHANGED <<id, isNew, call, cfg, attempt, step, stableVars, basicVars, waitVars>>
    /\ UNCHANGED extVars
    /\ UNCHANGED dataVars
    /\ UNCHANGED fnVars

\* the check of Delete that takes every answer without an error for (true, nil)
HeadBucketStableVisible ==
    /\ call = "Delete" /\ pc = "HeadBucketStable"
    /\ \E ans \in {OK, NotFound404, NoSuchBucket, AccessDenied, InternalError} :
        LET ok == isRequestFailure404(ans) \/ ans = OK
            err == IF ok THEN Nil ELSE ans
            out == waitConditionStable(ok, err)
        IN /\ Send("HeadBucket", ans, TRUE)
           /\ CASE out = "nil" -> Return(Nil) /\ StableReset
                [] out = "err" -> Return(WrapText(err)) /\ StableReset
                [] out = "timeout" ->
                     Return(WrapText(Plain("timeout exceeded"))) /\ StableReset
                [] OTHER -> StableNext(ok) /\ UNCHANGED <<pc, result>>
    /\ UNCHANGED <<id, isNew, call, cfg, attempt, depth, step, basicVars, waitVars>>
    /\ UNCHANGED extVars
    /\ UNCHANGED dataVars
    /\ UNCHANGED fnVars

\* the check of Delete: HeadBucket answered 404 is (true, nil), else (false, err)
HeadBucketStable ==
    /\ call = "Delete" /\ pc = "HeadBucketStable"
    /\ \E ans \in {OK, NotFound404, NoSuchBucket, AccessDenied, InternalError} :
        LET ok == isRequestFailure404(ans)
            err == IF ok THEN Nil ELSE ans
            out == waitConditionStable(ok, err)
        IN /\ Send("HeadBucket", ans, TRUE)
           /\ CASE out = "nil" -> Return(Nil) /\ StableReset
                [] out = "err" -> Return(WrapText(err)) /\ StableReset
                [] out = "timeout" ->
                     Return(WrapText(Plain("timeout exceeded"))) /\ StableReset
                [] OTHER -> StableNext(ok) /\ UNCHANGED <<pc, result>>
    /\ UNCHANGED <<id, isNew, call, cfg, attempt, depth, step, basicVars, waitVars>>
    /\ UNCHANGED extVars
    /\ UNCHANGED dataVars
    /\ UNCHANGED fnVars

----------------------------------------------------------------------------
(* resourceYandexStorageBucketRead *)

NoSuchBucketPolicy == Aws("NoSuchBucketPolicy", 404)
NoSuchCORSConfiguration == Aws("NoSuchCORSConfiguration", 404)
NoSuchWebsiteConfiguration == Aws("NoSuchWebsiteConfiguration", 404)
NotImplemented == Aws("NotImplemented", 501)
ObjectLockConfigurationNotFoundError == Aws("ObjectLockConfigurationNotFoundError", 404)
NoSuchLifecycleConfiguration == Aws("NoSuchLifecycleConfiguration", 404)
SSENotFoundMsg == "encryption configuration was not found"
SSENotFound ==
    Err("aws", "ServerSideEncryptionConfigurationNotFoundError", 404, SSENotFoundMsg)
SSENotFoundOther == Aws("ServerSideEncryptionConfigurationNotFoundError", 404)
\* the S3 client refuses a request for the bucket ""
InvalidParameter == Aws("InvalidParameter", 0)

\* the requests of ReadBasic in the order they are sent
ReadBasicOrder ==
    << "HeadBucket", "GetBucketPolicy", "GetBucketCors", "GetBucketWebsite",
       "GetBucketAcl", "GetBucketVersioning", "GetObjectLockConfiguration",
       "GetBucketLogging", "GetBucketLifecycleConfiguration", "GetBucketEncryption",
       "GetBucketTagging" >>

ReadAnswers(req) ==
    {OK, NoSuchBucket, AccessDenied, InternalError} \cup
    CASE req = "HeadBucket" -> {NotFound404} \cup (IF id = "" THEN {InvalidParameter} ELSE {})
      [] req = "GetBucketPolicy" -> {NoSuchBucketPolicy}
      [] req = "GetBucketCors" -> {NoSuchCORSConfiguration}
      [] req = "GetBucketWebsite" -> {NoSuchWebsiteConfiguration, NotImplemented}
      [] req = "GetBucketAcl" -> {Forbidden}
      [] req = "GetObjectLockConfiguration" -> {ObjectLockConfigurationNotFoundError}
      [] req = "GetBucketLifecycleConfiguration" -> {NoSuchLifecycleConfiguration}
      [] req = "GetBucketEncryption" -> {SSENotFound, SSENotFoundOther}
      [] OTHER -> {}

\* codes.NotFound and the other codes of an API call
GrpcNotFound == Grpc("NotFound")
GrpcPermissionDenied == Grpc("PermissionDenied")
GrpcUnavailable == Grpc("Unavailable")
GrpcDeadlineExceeded == Grpc("DeadlineExceeded")

isStatusWithCode(err, code) ==
    err.kind \in {"grpc", "operation"} /\ err.wrap = "none" /\ err.code = code

\* handleS3BucketNotFoundError: TRUE when it clears the identifier
handleS3BucketNotFoundError(err) ==
    isRequestFailure404(err) \/ isStatusWithCode(err, "NotFound")

\* ReadBasicOutcome that returns the errors of HeadBucket alone
ReadBasicOutcomeLenient(req, ans, new) ==
    IF req # "HeadBucket" \/ ans = Nil THEN "next"
    ELSE IF handleS3BucketNotFoundError(ans) THEN "clear" ELSE "error"

\* What ReadBasic does with the final answer of a request: "next" (go on with the
\* next request), "clear" (clear the identifier, return nil), "return" (return nil)
\* or "error" (return the error).
ReadBasicOutcome(req, ans, new) ==
    CASE req = "HeadBucket" ->
           IF ans = Nil THEN "next"
           ELSE IF handleS3BucketNotFoundError(ans) THEN "clear" ELSE "error"
      [] req = "GetBucketPolicy" ->
           IF ans = Nil \/ isAWSErr(ans, "NoSuchBucketPolicy", "")
              \/ isAWSErr(ans, "AccessDenied", "")
           THEN "next" ELSE "error"
      [] req = "GetBucketCors" ->
           IF ans = Nil \/ isAWSErr(ans, "NoSuchCORSConfiguration", "") THEN "next"
           ELSE IF handleS3BucketNotFoundError(ans) THEN "clear" ELSE "error"
      [] req = "GetBucketWebsite" ->
           IF ans = Nil \/ isAWSErr(ans, "NotImplemented", "")
              \/ isAWSErr(ans, "NoSuchWebsiteConfiguration", "")
           THEN "next"
           ELSE IF handleS3BucketNotFoundError(ans) THEN "clear" ELSE "error"
      [] req = "GetBucketAcl" ->
           IF ~new /\ isAWSErr(ans, "NoSuchBucket", "") THEN "clear"
           ELSE IF ans = Nil THEN "next"
           ELSE IF ans.kind = "aws" /\ ans.code \in {"AccessDenied", "Forbidden"}
                THEN "return" ELSE "error"
      [] req = "GetObjectLockConfiguration" ->
           IF ans # Nil /\ ~isAWSErr(ans, "ObjectLockConfigurationNotFoundError", "")
              /\ ~isAWSErr(ans, "AccessDenied", "")
           THEN "error" ELSE "next"
      [] req = "GetBucketLifecycleConfiguration" ->
           IF ans # Nil /\ ~isAWSErr(ans, "NoSuchLifecycleConfiguration", "")
           THEN "error" ELSE "next"
      [] req = "GetBucketEncryption" ->
           IF ans # Nil
              /\ ~isAWSErr(ans, "ServerSideEncryptionConfigurationNotFoundError",
                           SSENotFoundMsg)
           THEN "error" ELSE "next"
      [] OTHER -> IF ans = Nil THEN "next" ELSE "error"

\* ReadAttributes that takes acl from the answer to GetBucketAcl as well
ReadAttributesWithAcl(req) ==
    CASE req = "HeadBucket" -> {"bucket", "bucket_domain_name"}
      [] req = "GetBucketPolicy" -> {"policy"}
      [] req = "GetBucketCors" -> {"cors_rule"}
      [] req = "GetBucketWebsite" -> {"website", "website_endpoint", "website_domain"}
      [] req = "GetBucketAcl" -> {"acl", "grant"}
      [] req = "GetBucketVersioning" -> {"versioning"}
      [] req = "GetObjectLockConfiguration" -> {"object_lock_configuration"}
      [] req = "GetBucketLogging" -> {"logging"}
      [] req = "GetBucketLifecycleConfiguration" -> {"lifecycle_rule"}
      [] req = "GetBucketEncryption" -> {"server_side_encryption_configuration"}
      [] req = "GetBucketTagging" -> {"tags"}
      [] req = "Get" -> {"default_storage_class", "folder_id", "max_size",
                         "anonymous_access_flags"}
      [] req = "GetHTTPSConfig" -> {"https"}

\* the attributes Read sets in d from the answer to req
ReadAttributes(req) ==
    CASE req = "HeadBucket" -> {"bucket", "bucket_domain_name"}
      [] req = "GetBucketPolicy" -> {"policy"}
      [] req = "GetBucketCors" -> {"cors_rule"}
      [] req = "GetBucketWebsite" -> {"website", "website_endpoint", "website_domain"}
      [] req = "GetBucketAcl" -> {"grant"}
      [] req = "GetBucketVersioning" -> {"versioning"}
      [] req = "GetObjectLockConfiguration" -> {"object_lock_configuration"}
      [] req = "GetBucketLogging" -> {"logging"}
      [] req = "GetBucketLifecycleConfiguration" -> {"lifecycle_rule"}
      [] req = "GetBucketEncryption" -> {"server_side_encryption_configuration"}
      [] req = "GetBucketTagging" -> {"tags"}
      [] req = "Get" -> {"default_storage_class", "folder_id", "max_size",
                         "anonymous_access_flags"}
      [] req = "GetHTTPSConfig" -> {"https"}

\* d.Set of the attributes names: a value read from the server takes the place of
\* the value in d
dSet(names) ==
    /\ wrote' = names
    /\ attrs' = [a \in LocalAttributes |-> IF a \in names THEN "read" ELSE attrs[a]]

\* how ReadBasic wraps the error of a request it returns
ReadBasicError(req, ans) ==
    IF req \in {"GetBucketVersioning", "GetObjectLockConfiguration",
                "GetBucketLifecycleConfiguration"} THEN ans
    ELSE IF req \in {"GetBucketEncryption", "GetBucketTagging"} THEN WrapChain(ans)
    ELSE WrapText(ans)

ReadStart ==
    /\ HostCall("Read")
    /\ pc' = "ReadBasic"

\* getS3Client failed
ReadNoClient ==
    /\ pc = "ReadBasic" /\ step = 1 /\ attempt = 0
    /\ ~cfg.client
    /\ Return(WrapText(Err("client", "", 0, "")))
    /\ NoSend
    /\ UNCHANGED <<id, isNew, call, cfg, attempt, depth, step, stableVars, basicVars, waitVars>>
    /\ UNCHANGED extVars
    /\ UNCHANGED dataVars
    /\ UNCHANGED fnVars

ReadBasic ==
    /\ pc = "ReadBasic"
    /\ cfg.client
    /\ LET req == ReadBasicOrder[step] IN
       \E ans \in ReadAnswers(req) :
        IF retryFlakyS3Responses(ans)
        THEN /\ Send(req, ans, FALSE)
             /\ attempt' = attempt + 1
             /\ UNCHANGED <<id, pc, result, step, dataVars>>
        ELSE /\ Send(req, ans, TRUE)
             /\ attempt' = 0
             /\ LET out == ReadBasicOutcome(req, ans, isNew) IN
                  /\ dSet(IF out \in {"next", "return"} THEN ReadAttributes(req) ELSE {})
                  /\ CASE out = "next" ->
                         /\ pc' = IF step = Len(ReadBasicOrder) THEN "ReadExtended"
                                  ELSE pc
                         /\ step' = IF step = Len(ReadBasicOrder) THEN 1 ELSE step + 1
                         /\ UNCHANGED <<id, result>>
                    [] out = "clear" ->
                         /\ id' = ""
                         /\ pc' = "ReadExtended"
                         /\ step' = 1
                         /\ result' = result
                    [] out = "return" ->
                         /\ pc' = "ReadExtended"
                         /\ step' = 1
                         /\ UNCHANGED <<id, result>>
                    [] OTHER ->
                         /\ Return(ReadBasicError(req, ans))
                         /\ step' = 1
                         /\ id' = id
    /\ UNCHANGED <<isNew, call, cfg, depth, stableVars, basicVars, waitVars>>
    /\ UNCHANGED extVars
    /\ UNCHANGED fnVars

\* ReadExtended of a deleted bucket
ReadExtendedSkip ==
    /\ pc = "ReadExtended"
    /\ id = ""
    /\ Return(Nil)
    /\ NoSend
    /\ UNCHANGED <<id, isNew, call, cfg, attempt, depth, step, stableVars, basicVars, waitVars>>
    /\ UNCHANGED extVars
    /\ UNCHANGED dataVars
    /\ UNCHANGED fnVars

GrpcAnswers == {OK, GrpcNotFound, GrpcPermissionDenied, GrpcUnavailable,
                GrpcDeadlineExceeded}

\* bucketAPI.Get; Read logs the error ReadExtended returns and returns nil
ReadExtendedGet ==
    /\ pc = "ReadExtended"
    /\ id # ""
    /\ \E ans \in GrpcAnswers :
        /\ Send("Get", ans, TRUE)
        /\ dSet(IF ans = Nil THEN ReadAttributes("Get") ELSE {})
        /\ IF ans = Nil
           THEN pc' = "GetHTTPSConfig" /\ UNCHANGED <<id, result>>
           ELSE /\ id' = IF handleS3BucketNotFoundError(ans) THEN "" ELSE id
                /\ Return(Nil)
    /\ UNCHANGED <<isNew, call, cfg, attempt, depth, step, stableVars, basicVars, waitVars>>
    /\ UNCHANGED extVars
    /\ UNCHANGED fnVars

GetHTTPSConfig ==
    /\ pc = "GetHTTPSConfig"
    /\ \E ans \in GrpcAnswers :
        /\ Send("GetHTTPSConfig", ans, TRUE)
        /\ dSet(IF ans = Nil \/ isStatusWithCode(ans, "NotFound")
                   \/ isStatusWithCode(ans, "PermissionDenied")
                THEN ReadAttributes("GetHTTPSConfig") ELSE {})
        /\ Return(Nil)
    /\ UNCHANGED <<id, isNew, call, cfg, attempt, depth, step, stableVars, basicVars, waitVars>>
    /\ UNCHANGED extVars
    /\ UNCHANGED fnVars

----------------------------------------------------------------------------
(* validateS3BucketName.  A name of the model stands for its length and for *)
(* whether all its characters are letters, digits, hyphens or periods.      *)

Names == {"ab", "abc", "a_c", "n63", "n64"}

NameLen(name) ==
    CASE name = "ab" -> 2
      [] name = "n63" -> 63
      [] name = "n64" -> 64
      [] OTHER -> 3

NameMatches(name) == name # "a_c"

MaxNameLen == 63
MinNameLen == 3

\* the message of the error, "" for a valid name
validateS3BucketName(value) ==
    IF NameLen(value) > MaxNameLen THEN "must contain 63 characters at most"
    ELSE IF NameLen(value) < MinNameLen THEN "must contain at least 3 characters"
    ELSE IF ~NameMatches(value) THEN "only alphanumeric characters, hyphens, and periods allowed"
    ELSE ""

----------------------------------------------------------------------------
(* validateBucketPermissions *)

Permissions == {"FULL_CONTROL", "READ", "WRITE"}

validateBucketPermissions(permissions) ==
    LET fullControl == "FULL_CONTROL" \in permissions
        permissionRead == "READ" \in permissions
        permissionWrite == "WRITE" \in permissions
    IN IF fullControl /\ Cardinality(permissions) > 1
       THEN "do not use other ACP permissions along with FULL_CONTROL"
       ELSE IF permissionWrite /\ ~permissionRead
       THEN "should always provide READ permission, when granting WRITE"
       ELSE ""

\* the permission sets of the grants of the configuration, at most MaxGrants grants
MaxGrants == 1
GrantSets ==
    {g \in SUBSET ((SUBSET Permissions) \ {{}}) : Cardinality(g) <= MaxGrants}

\* the first error validateBucketPermissions gives for a grant, "" if none
GrantsError(grants) ==
    IF \E g \in grants : validateBucketPermissions(g) # ""
    THEN validateBucketPermissions(CHOOSE g \in grants : validateBucketPermissions(g) # "")
    ELSE ""

----------------------------------------------------------------------------
(* resourceYandexStorageBucketUpdateBasic and the update handlers *)

UpdateBasicOrder ==
    << "policy", "cors_rule", "website", "versioning", "acl", "grant", "logging",
       "lifecycle_rule", "server_side_encryption_configuration",
       "object_lock_configuration", "tags" >>

\* The values of a property as far as its handler tells them apart.
PropertyValues(p) ==
    CASE p = "policy" -> {Val("empty"), Val("set")}
      [] p = "cors_rule" -> {Val("empty"), Val("set")}
      [] p = "website" -> {Val("empty"), Val("set"), Val("noindex")}
      [] p = "grant" -> {[v |-> IF g = {} THEN "empty" ELSE "set", grants |-> g] :
                          g \in GrantSets}
      [] p = "lifecycle_rule" -> {Val("empty"), Val("set")}
      [] p = "server_side_encryption_configuration" -> {Val("empty"), Val("set")}
      [] p = "tags" -> {Val("empty"), Val("set"), Val("same")}
      [] OTHER -> {Val("set")}

\* the error a handler returns before it sends a request, Nil if none
HandlerValidation(p, a) ==
    IF p = "website" /\ a.v = "noindex"
    THEN Validation("must specify either index_document or redirect_all_requests_to")
    ELSE Nil

\* the requests a handler sends, in order, when every request succeeds
HandlerPlan(p, a) ==
    LET v == a.v IN
    CASE p = "policy" -> IF v = "empty" THEN <<"DeleteBucketPolicy">>
                         ELSE <<"PutBucketPolicy">>
      [] p = "cors_rule" -> IF v = "empty" THEN <<"DeleteBucketCors">>
                            ELSE <<"PutBucketCors">>
      [] p = "website" -> IF v = "empty" THEN <<"DeleteBucketWebsite">>
                          ELSE <<"PutBucketWebsite">>
      [] p = "versioning" -> <<"PutBucketVersioning">>
      [] p = "acl" -> <<"PutBucketAcl">>
      [] p = "grant" -> IF a.grants = {} THEN <<"PutBucketAcl">>
                        ELSE <<"GetBucketAcl", "PutBucketAcl">>
      [] p = "logging" -> <<"PutBucketLogging">>
      [] p = "lifecycle_rule" -> IF v = "empty" THEN <<"DeleteBucketLifecycle">>
                                 ELSE <<"PutBucketLifecycleConfiguration">>
      [] p = "server_side_encryption_configuration" ->
           IF v = "empty" THEN <<"DeleteBucketEncryption">>
           ELSE <<"PutBucketEncryption">>
      [] p = "object_lock_configuration" -> <<"PutObjectLockConfiguration">>
      [] p = "tags" -> IF v = "same" THEN << >>
                       ELSE IF v = "empty" THEN <<"DeleteBucketTagging">>
                       ELSE <<"PutBucketTagging">>

\* the codes on which a request of a handler is sent again
HandlerRetryCodes(req) ==
    IF req = "PutBucketPolicy" THEN {"MalformedPolicy", "NoSuchBucket"}
    ELSE IF req \in {"DeleteBucketLifecycle", "DeleteBucketEncryption"} THEN {}
    ELSE FlakyCodes

\* the requests followed by a waitConditionStable
HandlerWaits(req) ==
    req \in {"DeleteBucketCors", "PutBucketCors", "DeleteBucketWebsite",
             "PutBucketWebsite"}

MalformedPolicy == Aws("MalformedPolicy", 400)

HandlerAnswers(req) ==
    {OK, NoSuchBucket, AccessDenied, InternalError} \cup
    (IF req = "PutBucketPolicy" THEN {MalformedPolicy} ELSE {})

\* the error UpdateBasic returns for the error err of a handler
HandlerError(err) == WrapChain(WrapText(err))

UpdateStart ==
    /\ HostCall("Update")
    /\ pc' = "UpdateBasic"

\* getS3Client failed
UpdateNoClient ==
    /\ pc = "UpdateBasic" /\ step = 1
    /\ ~cfg.client
    /\ Return(WrapText(Err("client", "", 0, "")))
    /\ NoSend
    /\ UNCHANGED <<id, isNew, call, cfg, attempt, depth, step, stableVars,
                   basicVars, waitVars>>
    /\ UNCHANGED extVars
    /\ UNCHANGED dataVars
    /\ UNCHANGED fnVars

\* after the handler of the property at step: the next property, or UpdateExtended
UpdateBasicAdvance ==
    /\ pc' = IF step = Len(UpdateBasicOrder) THEN "UpdateExtended" ELSE "UpdateBasic"
    /\ step' = IF step = Len(UpdateBasicOrder) THEN 1 ELSE step + 1
    /\ arg' = NoArg
    /\ plan' = << >>

\* d.HasChange(property) is false, or the property is acl and the resource is new
UpdateBasicSkip ==
    /\ pc = "UpdateBasic"
    /\ cfg.client
    /\ UpdateBasicAdvance
    /\ NoSend
    /\ UNCHANGED <<id, isNew, call, cfg, result, attempt, depth, stableVars,
                   bucket, waitVars>>
    /\ UNCHANGED extVars
    /\ UNCHANGED dataVars
    /\ UNCHANGED fnVars

\* UpdateBasicInvoke that runs the handler of acl for a new resource as well
UpdateBasicInvokeNewAcl ==
    /\ pc = "UpdateBasic"
    /\ cfg.client
    /\ LET p == UpdateBasicOrder[step] IN
        /\ \E a \in PropertyValues(p) :
            IF HandlerValidation(p, a) # Nil
            THEN /\ Return(WrapChain(HandlerValidation(p, a)))
                 /\ arg' = a
                 /\ UNCHANGED <<step, plan>>
            ELSE IF HandlerPlan(p, a) = << >>
            THEN UpdateBasicAdvance /\ result' = result
            ELSE /\ pc' = "Handler"
                 /\ arg' = a
                 /\ plan' = HandlerPlan(p, a)
                 /\ UNCHANGED <<step, result>>
    /\ NoSend
    /\ UNCHANGED <<id, isNew, call, cfg, attempt, depth, stableVars, bucket,
                   waitVars>>
    /\ UNCHANGED extVars
    /\ UNCHANGED dataVars
    /\ UNCHANGED fnVars

\* the property has changed: its handler starts
UpdateBasicInvoke ==
    /\ pc = "UpdateBasic"
    /\ cfg.client
    /\ LET p == UpdateBasicOrder[step] IN
        /\ ~(p = "acl" /\ isNew)
        /\ \E a \in PropertyValues(p) :
            IF HandlerValidation(p, a) # Nil
            THEN /\ Return(WrapChain(HandlerValidation(p, a)))
                 /\ arg' = a
                 /\ UNCHANGED <<step, plan>>
            ELSE IF HandlerPlan(p, a) = << >>
            THEN UpdateBasicAdvance /\ result' = result
            ELSE /\ pc' = "Handler"
                 /\ arg' = a
                 /\ plan' = HandlerPlan(p, a)
                 /\ UNCHANGED <<step, result>>
    /\ NoSend
    /\ UNCHANGED <<id, isNew, call, cfg, attempt, depth, stableVars, bucket,
                   waitVars>>
    /\ UNCHANGED extVars
    /\ UNCHANGED dataVars
    /\ UNCHANGED fnVars

\* the handler sends the request at the head of its plan
HandlerRequest ==
    /\ pc = "Handler"
    /\ LET req == Head(plan)
           p == UpdateBasicOrder[step]
       IN \E ans \in HandlerAnswers(req) :
        IF retryOnAwsCodes(HandlerRetryCodes(req), ans)
        THEN /\ Send(req, ans, FALSE)
             /\ attempt' = attempt + 1
             /\ UNCHANGED <<pc, result, step, arg, plan>>
        ELSE /\ Send(req, ans, TRUE)
             /\ attempt' = 0
             /\ IF ans # Nil
                THEN Return(HandlerError(ans)) /\ UNCHANGED <<step, arg, plan>>
                ELSE IF HandlerWaits(req)
                THEN pc' = "HandlerWait" /\ UNCHANGED <<result, step, arg, plan>>
                ELSE IF p = "grant" /\ req = "GetBucketAcl" /\ GrantsError(arg.grants) # ""
                THEN /\ Return(WrapChain(Validation(GrantsError(arg.grants))))
                     /\ UNCHANGED <<step, arg, plan>>
                ELSE IF Len(plan) > 1
                THEN plan' = Tail(plan) /\ UNCHANGED <<pc, result, step, arg>>
                ELSE UpdateBasicAdvance /\ result' = result
    /\ UNCHANGED <<id, isNew, call, cfg, depth, stableVars, bucket, waitVars>>
    /\ UNCHANGED extVars
    /\ UNCHANGED dataVars
    /\ UNCHANGED fnVars

\* the request the check of the wait after req sends
HandlerCheckRequest(req) ==
    IF req \in {"DeleteBucketCors", "PutBucketCors"} THEN "GetBucketCors"
    ELSE "GetBucketWebsite"

\* what the check of the wait after req returns for the answer ans: <<ok, err>>
HandlerCheck(req, ans) ==
    CASE req = "DeleteBucketCors" ->
           IF isAWSErr(ans, "NoSuchCORSConfiguration", "") THEN <<TRUE, Nil>>
           ELSE <<FALSE, IF IsErr(ans) THEN ans ELSE Nil>>
      [] req = "DeleteBucketWebsite" ->
           IF isAWSErr(ans, "NoSuchWebsiteConfiguration", "") THEN <<TRUE, Nil>>
           ELSE <<FALSE, IF IsErr(ans) THEN ans ELSE Nil>>
      [] req = "PutBucketCors" ->
           IF IsErr(ans) /\ ~isAWSErr(ans, "NoSuchCORSConfiguration", "")
           THEN <<FALSE, ans>> ELSE <<ans = OK, Nil>>
      [] req = "PutBucketWebsite" ->
           IF IsErr(ans) /\ ~isAWSErr(ans, "NoSuchWebsiteConfiguration", "")
           THEN <<FALSE, ans>> ELSE <<ans = OK, Nil>>

HandlerCheckAnswers(req) ==
    {OK, Stale, AccessDenied, InternalError} \cup
    (IF req \in {"DeleteBucketCors", "PutBucketCors"} THEN {NoSuchCORSConfiguration}
     ELSE {NoSuchWebsiteConfiguration})

\* waitCorsPut, waitCorsDeleted, waitWebsitePut, waitWebsiteDeleted: one check
HandlerWait ==
    /\ pc = "HandlerWait"
    /\ LET req == Head(plan) IN
       \E ans \in HandlerCheckAnswers(req) :
        LET ok == HandlerCheck(req, ans)[1]
            err == HandlerCheck(req, ans)[2]
            out == waitConditionStable(ok, err)
        IN /\ Send(HandlerCheckRequest(req), ans, TRUE)
           /\ CASE out = "nil" -> UpdateBasicAdvance /\ StableReset /\ result' = result
                [] out = "err" ->
                     /\ Return(HandlerError(WrapText(err))) /\ StableReset
                     /\ UNCHANGED <<step, arg, plan>>
                [] out = "timeout" ->
                     /\ Return(HandlerError(WrapText(Plain("timeout exceeded"))))
                     /\ StableReset
                     /\ UNCHANGED <<step, arg, plan>>
                [] OTHER -> StableNext(ok) /\ UNCHANGED <<pc, result, step, arg, plan>>
    /\ UNCHANGED <<id, isNew, call, cfg, attempt, depth, bucket, waitVars>>
    /\ UNCHANGED extVars
    /\ UNCHANGED dataVars
    /\ UNCHANGED fnVars

----------------------------------------------------------------------------
(* waitOperation: the wait on the operation an API call returned.  Its     *)
(* body is not among the sources at hand; it follows the contract of the   *)
(* operation waiter: poll the status until the operation is done, the      *)
(* deadline of the context has passed or the context is cancelled.         *)

\* polling intervals that fit into the configured timeout of a step
TimeoutTicks == 3
\* failed status polls a wait puts up with
MaxPollRetries == 1

\* elapsed is counted up to one interval past the timeout and then kept
MaxElapsed == TimeoutTicks + 1

\* the errors an operation can end with
OpErrors ==
    { Err("operation", "NotFound", 0, "bucket not found"),
      Err("operation", "ResourceExhausted", 0, "quota exceeded"),
      Err("operation", "ResourceExhausted", 0, "too many requests") }

\* the payloads an operation can end with
OpPayloads == {"Bucket", "Other"}

TimeoutFailure == Err("timeout", "DeadlineExceeded", 0, "")
CancelFailure == Err("cancelled", "Canceled", 0, "")

DeadlinePassed == deadline # NoDeadline /\ elapsed >= deadline

Waiting == pc \in {"WaitPoll", "WaitSleep"}

\* config.Context(): no deadline; config.ContextWithTimeout(timeout): the timeout
Context == NoDeadline
ContextWithTimeout(timeout) == timeout

\* An API call that returns an operation was answered ans: waitOperation starts,
\* and returns at once when the call itself failed.
WaitStart(req, ans) ==
    /\ waitFor' = req
    /\ pollErrs' = 0
    /\ seen' = "none"
    /\ IF ans # Nil
       THEN /\ pc' = "WaitDone"
            /\ waitErr' = ans
            /\ opSrv' = NoOp
       ELSE /\ pc' = "WaitPoll"
            /\ waitErr' = Nil
            /\ opSrv' = Running

\* the operation and the context of a finished wait are dropped
WaitReset ==
    /\ opSrv' = NoOp
    /\ seen' = "none"
    /\ elapsed' = 0
    /\ deadline' = NoDeadline
    /\ waitFor' = "none"
    /\ waitErr' = Nil
    /\ pollErrs' = 0
    /\ cancelled' = cancelled

\* waitOperation returns err
WaitReturn(err) ==
    /\ pc' = "WaitDone"
    /\ waitErr' = err

\* the server finishes the operation, with a payload or with an error
OperationEnds ==
    /\ opSrv.state = "running"
    /\ \/ \E pl \in OpPayloads : opSrv' = Op("done", Nil, pl)
       \/ \E e \in OpErrors : opSrv' = Op("done", e, "")
    /\ UNCHANGED <<id, isNew, call, cfg, pc, result, attempt, depth, step,
                   reqVars, stableVars, basicVars, seen, elapsed, deadline, cancelled,
                   waitFor, waitErr, pollErrs>>
    /\ UNCHANGED extVars
    /\ UNCHANGED dataVars
    /\ UNCHANGED fnVars

\* the context of the wait is cancelled
Cancel ==
    /\ Waiting
    /\ ~cancelled
    /\ cancelled' = TRUE
    /\ UNCHANGED <<id, isNew, call, cfg, pc, result, attempt, depth, step,
                   reqVars, stableVars, basicVars, opSrv, seen, elapsed, deadline,
                   waitFor, waitErr, pollErrs>>
    /\ UNCHANGED extVars
    /\ UNCHANGED dataVars
    /\ UNCHANGED fnVars

\* WaitPoll that returns success to the caller without looking at the state
WaitPollUnobserved ==
    /\ pc = "WaitPoll"
    /\ ~cancelled
    /\ ~DeadlinePassed
    /\ Send("OperationGet", OK, TRUE)
    /\ seen' = seen
    /\ WaitReturn(Nil)
    /\ pollErrs' = pollErrs
    /\ UNCHANGED <<id, isNew, call, cfg, result, attempt, depth, step,
                   stableVars, basicVars, opSrv, elapsed, deadline, cancelled, waitFor>>
    /\ UNCHANGED extVars
    /\ UNCHANGED dataVars
    /\ UNCHANGED fnVars

\* WaitPoll that does not look at the cancellation
WaitPollUncancelled ==
    /\ pc = "WaitPoll"
    /\ ~DeadlinePassed
    /\ Send("OperationGet", OK, TRUE)
    /\ seen' = opSrv.state
    /\ IF opSrv.state = "done" THEN WaitReturn(opSrv.err)
       ELSE pc' = "WaitSleep" /\ waitErr' = waitErr
    /\ pollErrs' = pollErrs
    /\ UNCHANGED <<id, isNew, call, cfg, result, attempt, depth, step,
                   stableVars, basicVars, opSrv, elapsed, deadline, cancelled, waitFor>>
    /\ UNCHANGED extVars
    /\ UNCHANGED dataVars
    /\ UNCHANGED fnVars

\* a status poll
WaitPoll ==
    /\ pc = "WaitPoll"
    /\ ~cancelled
    /\ ~DeadlinePassed
    /\ \/ /\ Send("OperationGet", OK, TRUE)
          /\ seen' = opSrv.state
          /\ IF opSrv.state = "done" THEN WaitReturn(opSrv.err)
             ELSE pc' = "WaitSleep" /\ waitErr' = waitErr
          /\ pollErrs' = pollErrs
       \/ /\ seen' = seen
          /\ IF pollErrs < MaxPollRetries
             THEN /\ Send("OperationGet", Grpc("Unavailable"), FALSE)
                  /\ pollErrs' = pollErrs + 1
                  /\ pc' = "WaitSleep"
                  /\ waitErr' = waitErr
             ELSE /\ Send("OperationGet", Grpc("Unavailable"), TRUE)
                  /\ pollErrs' = pollErrs
                  /\ WaitReturn(Grpc("Unavailable"))
    /\ UNCHANGED <<id, isNew, call, cfg, result, attempt, depth, step,
                   stableVars, basicVars, opSrv, elapsed, deadline, cancelled, waitFor>>
    /\ UNCHANGED extVars
    /\ UNCHANGED dataVars
    /\ UNCHANGED fnVars

\* one polling interval passes
WaitSleep ==
    /\ pc = "WaitSleep"
    /\ ~cancelled
    /\ elapsed' = Min(elapsed + 1, MaxElapsed)
    /\ IF deadline # NoDeadline /\ elapsed + 1 >= deadline
       THEN WaitReturn(TimeoutFailure)
       ELSE pc' = "WaitPoll" /\ waitErr' = waitErr
    /\ NoSend
    /\ UNCHANGED <<id, isNew, call, cfg, result, attempt, depth, step,
                   stableVars, basicVars, opSrv, seen, deadline, cancelled, waitFor,
                   pollErrs>>
    /\ UNCHANGED extVars
    /\ UNCHANGED dataVars
    /\ UNCHANGED fnVars

\* WaitCancelled that reports the cancellation as an error of the operation
WaitCancelledAsOperationError ==
    /\ Waiting
    /\ cancelled
    /\ WaitReturn(Err("operation", "Canceled", 0, ""))
    /\ NoSend
    /\ UNCHANGED <<id, isNew, call, cfg, result, attempt, depth, step,
                   stableVars, basicVars, opSrv, seen, elapsed, deadline, cancelled,
                   waitFor, pollErrs>>
    /\ UNCHANGED extVars
    /\ UNCHANGED dataVars
    /\ UNCHANGED fnVars

\* the wait ends because the context was cancelled
WaitCancelled ==
    /\ Waiting
    /\ cancelled
    /\ WaitReturn(CancelFailure)
    /\ NoSend
    /\ UNCHANGED <<id, isNew, call, cfg, result, attempt, depth, step,
                   stableVars, basicVars, opSrv, seen, elapsed, deadline, cancelled,
                   waitFor, pollErrs>>
    /\ UNCHANGED extVars
    /\ UNCHANGED dataVars
    /\ UNCHANGED fnVars

----------------------------------------------------------------------------
(* resourceYandexStorageBucketCreate *)

CreateStart ==
    /\ HostCall("Create")
    /\ pc' = "Create"

\* the name is validated; then the bucket is created through the SDK when folder_id
\* is set, through the S3 client otherwise
CreateValidate ==
    /\ pc = "Create"
    /\ \E name \in Names :
        /\ bucket' = IF validateS3BucketName(name) = "" THEN name ELSE bucket
        /\ IF validateS3BucketName(name) # ""
           THEN Return(WrapText(Validation(validateS3BucketName(name))))
           ELSE IF cfg.folder THEN pc' = "SDKCreate" /\ result' = result
           ELSE IF ~cfg.client THEN Return(WrapText(WrapText(Err("client", "", 0, ""))))
           ELSE pc' = "CreateBucket" /\ result' = result
    /\ NoSend
    /\ UNCHANGED <<id, isNew, call, cfg, attempt, depth, step, stableVars, arg,
                   plan, waitVars>>
    /\ UNCHANGED extVars
    /\ UNCHANGED dataVars
    /\ UNCHANGED fnVars

CreateRetryCodes == {"OperationAborted", "AccessDenied", "Forbidden"}

OperationAborted == Aws("OperationAborted", 409)
BucketAlreadyExists == Aws("BucketAlreadyExists", 409)

\* after the bucket was created: SetId and Update
CreateSetId ==
    /\ id' = bucket
    /\ pc' = "UpdateBasic"
    /\ step' = 1

\* resourceYandexStorageBucketCreateByS3Client
CreateBucket ==
    /\ pc = "CreateBucket"
    /\ \E ans \in {OK, OperationAborted, AccessDenied, BucketAlreadyExists, InternalError} :
        IF retryOnAwsCodes(CreateRetryCodes, ans)
        THEN /\ Send("CreateBucket", ans, FALSE)
             /\ attempt' = attempt + 1
             /\ UNCHANGED <<id, pc, result, step>>
        ELSE /\ Send("CreateBucket", ans, TRUE)
             /\ attempt' = 0
             /\ IF ans # Nil
                THEN Return(WrapText(ans)) /\ UNCHANGED <<id, step>>
                ELSE CreateSetId /\ result' = result
    /\ UNCHANGED <<isNew, call, cfg, depth, stableVars, basicVars, waitVars>>
    /\ UNCHANGED extVars
    /\ UNCHANGED dataVars
    /\ UNCHANGED fnVars

\* resourceYandexStorageBucketCreateBySDK: bucketAPI.Create with config.Context()
SDKCreate ==
    /\ pc = "SDKCreate"
    /\ \E ans \in GrpcAnswers :
        /\ Send("Create", ans, TRUE)
        /\ WaitStart("Create", ans)
    /\ elapsed' = 0
    /\ deadline' = Context
    /\ UNCHANGED <<id, isNew, call, cfg, result, attempt, depth, step,
                   stableVars, basicVars, cancelled>>
    /\ UNCHANGED extVars
    /\ UNCHANGED dataVars
    /\ UNCHANGED fnVars

\* after waitOperation of CreateBySDK
SDKCreateDone ==
    /\ pc = "WaitDone" /\ waitFor = "Create"
    /\ IF waitErr # Nil
       THEN Return(WrapText(waitErr)) /\ UNCHANGED <<id, step, waitVars>>
       ELSE IF opSrv.payload # "Bucket"
       THEN /\ Return(WrapText(Plain("mismatched message type")))
            /\ UNCHANGED <<id, step, waitVars>>
       ELSE CreateSetId /\ WaitReset /\ result' = result
    /\ NoSend
    /\ UNCHANGED <<isNew, call, cfg, attempt, depth, stableVars, basicVars>>
    /\ UNCHANGED extVars
    /\ UNCHANGED dataVars
    /\ UNCHANGED fnVars

----------------------------------------------------------------------------
(* resourceYandexStorageBucketUpdateExtended *)

ExtendedProperties == {"default_storage_class", "max_size", "anonymous_access_flags"}

\* resourceYandexStorageRequireExternalSDK
resourceYandexStorageRequireExternalSDK(c) == c.folder

\* UpdatePaths that takes the changed properties of a new resource as well
UpdatePathsOfNew(changed, new, createdBySDK) == changed

\* the paths of the update mask: the changed properties, none for a new resource
\* created through the SDK
UpdatePaths(changed, new, createdBySDK) ==
    IF new /\ createdBySDK THEN {} ELSE changed

\* the request of UpdateExtended is dropped
ExtendedReset ==
    /\ changes' = {}
    /\ update' = NoUpdate

\* UpdateRead that returns nil in the place of the Read
UpdateReadSkipped ==
    /\ pc' = "done"
    /\ step' = 1
    /\ ExtendedReset

\* UpdateExtended has returned nil: Update goes on with Read
UpdateRead ==
    /\ pc' = "ReadBasic"
    /\ step' = 1
    /\ ExtendedReset

\* the start of UpdateExtended: the mask is built and the context is made
UpdateExtended ==
    /\ pc = "UpdateExtended"
    /\ IF id = ""
       THEN UpdateRead /\ UNCHANGED <<elapsed, deadline>>
       ELSE /\ \E changed \in SUBSET ExtendedProperties :
                LET paths == UpdatePaths(changed, isNew,
                                         resourceYandexStorageRequireExternalSDK(cfg))
                IN /\ changes' = changed
                   /\ update' = UpdateBucketRequest(paths, paths)
                   /\ pc' = IF paths # {} THEN "ExtendedUpdate" ELSE "ExtendedHTTPS"
            /\ elapsed' = 0
            /\ deadline' = ContextWithTimeout(TimeoutTicks)
            /\ step' = step
    /\ NoSend
    /\ UNCHANGED <<id, isNew, call, cfg, result, attempt, depth, stableVars,
                   basicVars, opSrv, seen, cancelled, waitFor, waitErr, pollErrs>>
    /\ UNCHANGED dataVars
    /\ UNCHANGED fnVars

\* bucketAPI.Update
ExtendedUpdate ==
    /\ pc = "ExtendedUpdate"
    /\ \E ans \in GrpcAnswers :
        /\ Send("Update", ans, TRUE)
        /\ WaitStart("Update", ans)
    /\ UNCHANGED <<id, isNew, call, cfg, result, attempt, depth, step,
                   stableVars, basicVars, elapsed, deadline, cancelled>>
    /\ UNCHANGED extVars
    /\ UNCHANGED dataVars
    /\ UNCHANGED fnVars

\* ExtendedOutcome that takes every error for a not-found
ExtendedOutcomeAllNotFound(err, opErr) ==
    IF err # Nil THEN "clear"
    ELSE IF opErr # Nil THEN "operr"
    ELSE "next"

\* What UpdateExtended does with what waitOperation returned and with the error the
\* operation ended with: "clear" (clear the identifier, return nil), "err", "operr"
\* (return the operation's error as a status error) or "next".
ExtendedOutcome(err, opErr) ==
    IF err # Nil
    THEN (IF handleS3BucketNotFoundError(err) THEN "clear" ELSE "err")
    ELSE IF opErr # Nil THEN "operr"
    ELSE "next"

\* status.Error(codes.Code(opErr.Code), opErr.Message)
StatusError(opErr) == Err("grpc", opErr.code, 0, opErr.msg)

\* after waitOperation of the Update request, of SetHTTPSConfig or DeleteHTTPSConfig
ExtendedDone ==
    /\ pc = "WaitDone" /\ waitFor \in {"Update", "SetHTTPSConfig", "DeleteHTTPSConfig"}
    /\ LET out == ExtendedOutcome(waitErr, opSrv.err) IN
         CASE out = "clear" -> id' = "" /\ UpdateRead /\ WaitReset /\ result' = result
           [] out = "err" ->
                Return(waitErr) /\ UNCHANGED <<id, step, waitVars, extVars>>
           [] out = "operr" ->
                /\ Return(StatusError(opSrv.err))
                /\ UNCHANGED <<id, step, waitVars, extVars>>
           [] OTHER ->
                /\ IF waitFor = "Update"
                   THEN /\ pc' = "ExtendedHTTPS" /\ step' = step
                        /\ ExtendedReset
                        /\ opSrv' = NoOp /\ seen' = "none" /\ waitFor' = "none"
                        /\ UNCHANGED <<elapsed, deadline, cancelled, waitErr, pollErrs>>
                   ELSE UpdateRead /\ WaitReset
                /\ UNCHANGED <<id, result>>
    /\ NoSend
    /\ UNCHANGED <<isNew, call, cfg, attempt, depth, stableVars, basicVars>>
    /\ UNCHANGED dataVars
    /\ UNCHANGED fnVars

\* https has not changed
ExtendedNoHTTPS ==
    /\ pc = "ExtendedHTTPS"
    /\ UpdateRead
    /\ WaitReset
    /\ NoSend
    /\ UNCHANGED <<id, isNew, call, cfg, result, attempt, depth, stableVars,
                   basicVars>>
    /\ UNCHANGED dataVars
    /\ UNCHANGED fnVars

\* https has changed: SetHTTPSConfig when it has a certificate, DeleteHTTPSConfig
\* when it is empty
ExtendedHTTPS ==
    /\ pc = "ExtendedHTTPS"
    /\ \E req \in {"SetHTTPSConfig", "DeleteHTTPSConfig"} :
       \E ans \in GrpcAnswers :
        /\ Send(req, ans, TRUE)
        /\ WaitStart(req, ans)
    /\ UNCHANGED <<id, isNew, call, cfg, result, attempt, depth, step,
                   stableVars, basicVars, elapsed, deadline, cancelled>>
    /\ UNCHANGED extVars
    /\ UNCHANGED dataVars
    /\ UNCHANGED fnVars

Next ==
    \/ CreateStart
    \/ CreateValidate
    \/ CreateBucket
    \/ SDKCreate
    \/ SDKCreateDone
    \/ UpdateExtended
    \/ ExtendedUpdate
    \/ ExtendedDone
    \/ ExtendedNoHTTPS
    \/ ExtendedHTTPS
    \/ OperationEnds
    \/ Cancel
    \/ WaitPoll
    \/ WaitSleep
    \/ WaitCancelled
    \/ UpdateStart
    \/ UpdateNoClient
    \/ UpdateBasicSkip
    \/ UpdateBasicInvoke
    \/ HandlerRequest
    \/ HandlerWait
    \/ ReadStart
    \/ ReadNoClient
    \/ ReadBasic
    \/ ReadExtendedSkip
    \/ ReadExtendedGet
    \/ GetHTTPSConfig
    \/ DeleteStart
    \/ DeleteNoClient
    \/ DeleteBucket
    \/ ListObjectVersions
    \/ DeleteObjects
    \/ HeadBucketStable

Spec == Init /\ [][Next]_vars

\* Delete alone, under weak fairness: a call that can take a step takes one
DeleteNext ==
    \/ DeleteStart
    \/ DeleteNoClient
    \/ DeleteBucket
    \/ ListObjectVersions
    \/ DeleteObjects
    \/ HeadBucketStable

LiveSpec == Init /\ [][DeleteNext]_vars /\ WF_vars(DeleteNext)

----------------------------------------------------------------------------
(* sweepWithRetryByFunc: the sweep function sf is called until it returns   *)
(* no error, conf.MaxRetries times at most.                                 *)

\* the largest conf.MaxRetries of the model
MaxSweepRetries == 4

\* the errors sf returns
SweepErrors == {Grpc("FailedPrecondition"), Grpc("Unavailable")}

\* the loop condition i < conf.MaxRetries, which leaves out the last try
SweepGoesOnBelow(n, max) == n < max

\* the loop condition i <= conf.MaxRetries
SweepGoesOn(n, max) == n <= max

SweepInit ==
    /\ NoBucket
    /\ NoDefaults
    /\ NoInstance
    /\ NoRules
    /\ NoRun
    /\ NoSDKRequest
    /\ NoTags
    /\ NoCheck
    /\ NoGrants
    /\ maxRetries \in -1..MaxSweepRetries
    /\ try = 1
    /\ sfErrs = << >>
    /\ swept = "none"

\* one pass of the loop: sf is called; nil makes the function return true
SweepTry ==
    /\ swept = "none"
    /\ SweepGoesOn(try, maxRetries)
    /\ \E err \in SweepErrors \cup {Nil} :
        /\ sfErrs' = Append(sfErrs, err)
        /\ swept' = IF err # Nil THEN "none" ELSE "true"
        /\ try' = IF err # Nil THEN try + 1 ELSE try
    /\ UNCHANGED <<maxRetries, bucketVars, defaultsVars, nicVars, ruleVars, runVars, sdkVars,
            tagVars, checkVars, grantVars>>

\* the loop is left: the function returns false
SweepFailed ==
    /\ swept = "none"
    /\ ~SweepGoesOn(try, maxRetries)
    /\ swept' = "false"
    /\ UNCHANGED <<maxRetries, try, sfErrs, bucketVars, defaultsVars, nicVars, ruleVars, runVars,
                 sdkVars, tagVars, checkVars, grantVars>>

SweepNext == SweepTry \/ SweepFailed

SweepSpec == SweepInit /\ [][SweepNext]_vars

----------------------------------------------------------------------------
(* setDefaults: the settings of the provider configuration that are not    *)
(* set take the value of an environment variable or a built-in default.    *)
(* A value of the framework (types.String, types.Bool, types.Int64) is     *)
(* null, unknown or known; the strings, booleans and numbers it holds are  *)
(* written as strings.                                                     *)

Null == [state |-> "null", value |-> ""]
Unknown == [state |-> "unknown", value |-> ""]
Known(v) == [state |-> "known", value |-> v]

StringValue(v) == Known(v)
\* types.BoolValue of a Go bool
BoolValue(b) == Known(IF b THEN "true" ELSE "false")
Int64Value(v) == Known(v)

IsNull(field) == field.state = "null"
IsUnknown(field) == field.state = "unknown"
\* ValueString: the empty string for a null or unknown value
ValueString(field) == IF field.state = "known" THEN field.value ELSE ""

\* strconv.ParseBool: <<value, err>>; err is TRUE when the string is no boolean
ParseBool(str) ==
    IF str \in {"1", "t", "T", "TRUE", "true", "True"} THEN <<TRUE, FALSE>>
    ELSE IF str \in {"0", "f", "F", "FALSE", "false", "False"} THEN <<FALSE, FALSE>>
    ELSE <<FALSE, TRUE>>

\* os.Getenv: the empty string for a variable that is not set
Getenv(osEnvName) == osEnv[osEnvName]

setToDefaultIfNeeded(field, osEnvName, defaultVal) ==
    IF ValueString(field) # "" THEN field
    ELSE IF ValueString(StringValue(Getenv(osEnvName))) = ""
    THEN StringValue(defaultVal)
    ELSE StringValue(Getenv(osEnvName))

setToDefaultBoolIfNeeded(field, osEnvName, defaultVal) ==
    IF IsUnknown(field) \/ IsNull(field)
    THEN LET v == ParseBool(Getenv(osEnvName))[1]
             err == ParseBool(Getenv(osEnvName))[2]
         IN IF err THEN BoolValue(v) ELSE BoolValue(defaultVal)
    ELSE field

\* the settings of the model: Endpoint and FolderID stand for the fourteen string
\* settings, the one with a built-in default, the other without
StringSettings == {"Endpoint", "FolderID"}
BoolSettings == {"Insecure", "Plaintext"}

\* the environment variable of a setting
EnvName(setting) ==
    CASE setting = "Endpoint" -> "YC_ENDPOINT"
      [] setting = "FolderID" -> "YC_FOLDER_ID"
      [] setting = "Insecure" -> "YC_INSECURE"
      [] setting = "Plaintext" -> "YC_PLAINTEXT"

\* the built-in default of a setting
DefaultOf(setting) ==
    CASE setting = "Endpoint" -> "DefaultEndpoint"
      [] setting = "FolderID" -> ""
      [] setting = "MaxRetries" -> "DefaultMaxRetries"
      [] setting = "Profile" -> "default"

setDefaults(c) ==
    [ Endpoint |-> setToDefaultIfNeeded(c.Endpoint, "YC_ENDPOINT", "DefaultEndpoint"),
      FolderID |-> setToDefaultIfNeeded(c.FolderID, "YC_FOLDER_ID", ""),
      Insecure |-> setToDefaultBoolIfNeeded(c.Insecure, "YC_INSECURE", FALSE),
      Plaintext |-> setToDefaultBoolIfNeeded(c.Plaintext, "YC_PLAINTEXT", FALSE),
      MaxRetries |-> IF IsUnknown(c.MaxRetries) \/ IsNull(c.MaxRetries)
                     THEN Int64Value("DefaultMaxRetries") ELSE c.MaxRetries,
      Profile |-> IF IsUnknown(c.Profile) \/ IsNull(c.Profile)
                  THEN StringValue("default") ELSE c.Profile ]

\* the configurations given to setDefaults
States ==
    [ Endpoint : {Null, Unknown, Known(""), Known("api.example")},
      FolderID : {Null, Known("b1g")},
      Insecure : {Null, Unknown, Known("true"), Known("false")},
      Plaintext : {Null, Known("true")},
      MaxRetries : {Null, Known("3")},
      Profile : {Null, Known("prod")} ]

\* the environments: a variable that is not set is the empty string
Environments ==
    [ YC_ENDPOINT : {"", "env.example"},
      YC_FOLDER_ID : {"", "b1genv"},
      YC_INSECURE : {"", "true", "0", "yes"},
      YC_PLAINTEXT : {"", "1"} ]

DefaultsInit ==
    /\ NoBucket
    /\ NoSweep
    /\ NoInstance
    /\ NoRules
    /\ NoRun
    /\ NoSDKRequest
    /\ NoTags
    /\ NoCheck
    /\ NoGrants
    /\ config \in States
    /\ osEnv \in Environments
    /\ defaulted = NoState

\* Provider.Configure has setDefaults fill the configuration
SetDefaults ==
    /\ defaulted = NoState
    /\ defaulted' = setDefaults(config)
    /\ UNCHANGED <<config, osEnv, bucketVars, sweepVars, nicVars, ruleVars, runVars, sdkVars,
            tagVars, checkVars, grantVars>>

DefaultsNext == SetDefaults

DefaultsSpec == DefaultsInit /\ [][DefaultsNext]_vars

----------------------------------------------------------------------------
(* flattenInstanceNetworkInterfaces and                                     *)
(* flattenInstanceGroupManagedInstanceNetworkInterfaces.  Their bodies are  *)
(* not among the sources at hand; they follow their description, and the    *)
(* tables of their tests are taken from the tests.  A compute.Instance and  *)
(* an instancegroup.ManagedInstance with the same content are one value.    *)

\* the largest number of network interfaces of a generated instance
MaxInterfaces == 2

NilNat == [nil |-> TRUE, Address |-> "", IpVersion |-> ""]
OneToOneNat(address, version) ==
    [nil |-> FALSE, Address |-> address, IpVersion |-> version]

NilAddress == [nil |-> TRUE, Address |-> "", OneToOneNat |-> NilNat]
PrimaryAddress(address, nat) ==
    [nil |-> FALSE, Address |-> address, OneToOneNat |-> nat]

NetworkInterface(index, v4, v6) ==
    [Index |-> index, PrimaryV4Address |-> v4, PrimaryV6Address |-> v6,
     SubnetId |-> "some-subnet-id", MacAddress |-> "aa-bb-cc-dd-ee-ff"]

\* the addresses of the generated interface number k
V4Addresses == <<"10.0.0.1", "10.0.0.2", "10.0.0.3">>
NatAddresses == <<"92.68.0.1", "92.68.0.2", "92.68.0.3">>
V6Addresses == <<"2001:db8::1", "2001:db8::2", "2001:db8::3">>
Indexes == <<"1", "2", "3">>

\* the generated interfaces number k: without or with an IPv4 address, this one
\* without or with a one-to-one NAT, without or with an IPv6 address
InterfacesAt(k) ==
    { NetworkInterface(Indexes[k], v4, v6) :
        v4 \in {NilAddress, PrimaryAddress(V4Addresses[k], NilNat),
                PrimaryAddress(V4Addresses[k], OneToOneNat(NatAddresses[k], "IPV4"))},
        v6 \in {NilAddress, PrimaryAddress(V6Addresses[k], NilNat)} }

\* the generated instances: a list of up to MaxInterfaces interfaces
Instances ==
    UNION { {inst \in [1..n -> UNION {InterfacesAt(k) : k \in 1..n}] :
                \A k \in 1..n : inst[k] \in InterfacesAt(k)} : n \in 0..MaxInterfaces }

\* the table of TestFlattenInstanceNetworkInterfaces, the same as the one of
\* TestFlattenInstanceGroupManagedInstanceNetworkInterfaces
NetworkInterfacesTests ==
    { [instance |-> << >>,
       want |-> << >>, externalIP |-> "", internalIP |-> ""],
      [instance |-> << NetworkInterface("1", PrimaryAddress("192.168.19.16", NilNat),
                                        NilAddress) >>,
       want |-> << [index |-> 1, mac_address |-> "aa-bb-cc-dd-ee-ff",
                    subnet_id |-> "some-subnet-id", ip_address |-> "192.168.19.16",
                    nat |-> FALSE] >>,
       externalIP |-> "", internalIP |-> "192.168.19.16"],
      [instance |-> << NetworkInterface("1",
                         PrimaryAddress("192.168.19.86",
                                        OneToOneNat("92.68.12.34", "IPV4")),
                         NilAddress) >>,
       want |-> << [index |-> 1, mac_address |-> "aa-bb-cc-dd-ee-ff",
                    subnet_id |-> "some-subnet-id", ip_address |-> "192.168.19.86",
                    nat |-> TRUE, nat_ip_address |-> "92.68.12.34",
                    nat_ip_version |-> "IPV4"] >>,
       externalIP |-> "92.68.12.34", internalIP |-> "192.168.19.86"],
      [instance |-> << NetworkInterface("1", NilAddress,
                                        PrimaryAddress("2001:db8::370:7348", NilNat)) >>,
       want |-> << [index |-> 1, mac_address |-> "aa-bb-cc-dd-ee-ff",
                    subnet_id |-> "some-subnet-id", ipv6 |-> TRUE,
                    ipv6_address |-> "2001:db8::370:7348"] >>,
       externalIP |-> "2001:db8::370:7348", internalIP |-> ""] }

\* strconv.Atoi of the index of an interface
Atoi(str) == CASE str = "1" -> 1 [] str = "2" -> 2 [] str = "3" -> 3

\* FlatV4 that leaves out nat for an address without a one-to-one NAT
FlatV4NatOnly(iface) ==
    IF iface.PrimaryV4Address.nil THEN << >>
    ELSE ("ip_address" :> iface.PrimaryV4Address.Address) @@
         (IF iface.PrimaryV4Address.OneToOneNat.nil THEN << >>
          ELSE ("nat" :> TRUE) @@
               ("nat_ip_address" :> iface.PrimaryV4Address.OneToOneNat.Address) @@
               ("nat_ip_version" :> iface.PrimaryV4Address.OneToOneNat.IpVersion))

\* the attributes of the IPv4 address of an interface
FlatV4(iface) ==
    IF iface.PrimaryV4Address.nil THEN << >>
    ELSE ("ip_address" :> iface.PrimaryV4Address.Address) @@
         (IF iface.PrimaryV4Address.OneToOneNat.nil THEN ("nat" :> FALSE)
          ELSE ("nat" :> TRUE) @@
               ("nat_ip_address" :> iface.PrimaryV4Address.OneToOneNat.Address) @@
               ("nat_ip_version" :> iface.PrimaryV4Address.OneToOneNat.IpVersion))

\* the attributes of the IPv6 address of an interface
FlatV6(iface) ==
    IF iface.PrimaryV6Address.nil THEN << >>
    ELSE ("ipv6" :> TRUE) @@ ("ipv6_address" :> iface.PrimaryV6Address.Address)

\* the first of the addresses addrs that is not empty, "" if there is none
FirstAddress(addrs) ==
    IF \A k \in 1..Len(addrs) : addrs[k] = "" THEN ""
    ELSE addrs[CHOOSE k \in 1..Len(addrs) :
                 addrs[k] # "" /\ \A j \in 1..(k - 1) : addrs[j] = ""]

NatAddress(iface) ==
    IF iface.PrimaryV4Address.nil THEN "" ELSE iface.PrimaryV4Address.OneToOneNat.Address

flattenInstanceNetworkInterfaces(inst) ==
    [ nics |-> [k \in 1..Len(inst) |->
                  ("index" :> Atoi(inst[k].Index)) @@
                  ("mac_address" :> inst[k].MacAddress) @@
                  ("subnet_id" :> inst[k].SubnetId) @@
                  FlatV4(inst[k]) @@ FlatV6(inst[k])],
      externalIP |->
        LET nat == FirstAddress([k \in 1..Len(inst) |-> NatAddress(inst[k])])
        IN IF nat # "" THEN nat
           ELSE FirstAddress([k \in 1..Len(inst) |-> inst[k].PrimaryV6Address.Address]),
      internalIP |->
        FirstAddress([k \in 1..Len(inst) |-> inst[k].PrimaryV4Address.Address]) ]

flattenInstanceGroupManagedInstanceNetworkInterfaces(inst) ==
    [ nics |-> [k \in 1..Len(inst) |->
                  ("index" :> Atoi(inst[k].Index)) @@
                  ("mac_address" :> inst[k].MacAddress) @@
                  ("subnet_id" :> inst[k].SubnetId) @@
                  FlatV4(inst[k]) @@ FlatV6(inst[k])],
      externalIP |->
        LET nat == FirstAddress([k \in 1..Len(inst) |-> NatAddress(inst[k])])
        IN IF nat # "" THEN nat
           ELSE FirstAddress([k \in 1..Len(inst) |-> inst[k].PrimaryV6Address.Address]),
      internalIP |->
        FirstAddress([k \in 1..Len(inst) |-> inst[k].PrimaryV4Address.Address]) ]

NicInit ==
    /\ NoBucket
    /\ NoSweep
    /\ NoDefaults
    /\ NoRules
    /\ NoRun
    /\ NoSDKRequest
    /\ NoTags
    /\ NoCheck
    /\ NoGrants
    /\ instance \in Instances \cup {t.instance : t \in NetworkInterfacesTests}
    /\ flatInstance = NoFlat
    /\ flatManaged = NoFlat

FlattenInstance ==
    /\ flatInstance = NoFlat
    /\ flatInstance' = flattenInstanceNetworkInterfaces(instance)
    /\ UNCHANGED <<instance, flatManaged, bucketVars, sweepVars, defaultsVars, ruleVars, runVars,
                 sdkVars, tagVars, checkVars, grantVars>>

FlattenManagedInstance ==
    /\ flatManaged = NoFlat
    /\ flatManaged' = flattenInstanceGroupManagedInstanceNetworkInterfaces(instance)
    /\ UNCHANGED <<instance, flatInstance, bucketVars, sweepVars, defaultsVars, ruleVars, runVars,
                 sdkVars, tagVars, checkVars, grantVars>>

NicNext == FlattenInstance \/ FlattenManagedInstance

NicSpec == NicInit /\ [][NicNext]_vars

----------------------------------------------------------------------------
(* flattenSecurityGroupRulesSpec.  Its body is not among the sources at     *)
(* hand; it follows its description, and the rules and the set of its test  *)
(* are taken from the test.                                                 *)

\* the largest number of rules of a generated list
MaxRules == 2

SecurityGroupRule(ruleId, description, direction, from, to, name, number, cidrs) ==
    [Id |-> ruleId, Description |-> description,
     Labels |-> [key1 |-> "value1", key2 |-> "value2"],
     Direction |-> direction, Ports |-> [FromPort |-> from, ToPort |-> to],
     ProtocolName |-> name, ProtocolNumber |-> number, V4CidrBlocks |-> cidrs]

\* the protocols of the rules: name and number
Protocols == {<<"TCP", 6>>, <<"", 0>>, <<"IGP", 9>>}

\* the port ranges of the generated rules
PortRanges == {<<22, 22>>, <<22, 23>>, <<23, 23>>}

RuleIds == <<"21", "22", "23">>

\* the generated rules number k
RulesAt(k) ==
    { SecurityGroupRule(RuleIds[k], "desc", direction, ports[1], ports[2],
                        proto[1], proto[2], <<"10.0.0.0/24">>) :
        direction \in {1, 2}, ports \in PortRanges, proto \in Protocols }

\* the generated lists of up to MaxRules rules
RuleLists ==
    UNION { {list \in [1..n -> UNION {RulesAt(k) : k \in 1..n}] :
                \A k \in 1..n : list[k] \in RulesAt(k)} : n \in 0..MaxRules }

\* the rules of TestFlattenRules
TestFlattenRulesSpec ==
    << SecurityGroupRule("21", "desc1", 1, 22, 23, "TCP", 6, <<"10.0.0.0/24">>),
       SecurityGroupRule("22", "desc2", 2, 25, 25, "", 0, <<"10.0.3.0/24">>),
       SecurityGroupRule("23", "desc3", 2, 1, 65535, "IGP", 9,
                         <<"10.0.0.0/24", "10.0.1.0/24">>) >>

\* the set TestFlattenRules expects
TestFlattenRulesExpected ==
    { [id |-> "21", description |-> "desc1", direction |-> "INGRESS",
       labels |-> [key1 |-> "value1", key2 |-> "value2"],
       v4_cidr_blocks |-> <<"10.0.0.0/24">>, protocol |-> "TCP",
       port |-> -1, from_port |-> 22, to_port |-> 23],
      [id |-> "22", description |-> "desc2", direction |-> "EGRESS",
       labels |-> [key1 |-> "value1", key2 |-> "value2"],
       v4_cidr_blocks |-> <<"10.0.3.0/24">>, protocol |-> "ANY",
       port |-> 25, from_port |-> -1, to_port |-> -1],
      [id |-> "23", description |-> "desc3", direction |-> "EGRESS",
       labels |-> [key1 |-> "value1", key2 |-> "value2"],
       v4_cidr_blocks |-> <<"10.0.0.0/24", "10.0.1.0/24">>, protocol |-> "9",
       port |-> -1, from_port |-> 1, to_port |-> 65535] }

\* the name of a direction
DirectionName(direction) ==
    CASE direction = 1 -> "INGRESS"
      [] direction = 2 -> "EGRESS"

\* the protocol of a rule: ANY for no name and number 0, the name of TCP, the
\* number for a protocol known by its number alone
ProtocolOf(rule) ==
    IF rule.ProtocolName = "" /\ rule.ProtocolNumber = 0 THEN "ANY"
    ELSE IF rule.ProtocolName = "TCP" THEN "TCP"
    ELSE CASE rule.ProtocolNumber = 6 -> "6"
           [] rule.ProtocolNumber = 9 -> "9"

\* FlatPorts that gives the port of a range of several ports as well
FlatPortsBoth(ports) ==
    [port |-> ports.FromPort,
     from_port |-> IF ports.FromPort = ports.ToPort THEN -1 ELSE ports.FromPort,
     to_port |-> IF ports.FromPort = ports.ToPort THEN -1 ELSE ports.ToPort]

\* the three port attributes of a port range
FlatPorts(ports) ==
    IF ports.FromPort = ports.ToPort
    THEN [port |-> ports.FromPort, from_port |-> -1, to_port |-> -1]
    ELSE [port |-> -1, from_port |-> ports.FromPort, to_port |-> ports.ToPort]

flattenSecurityGroupRulesSpec(spec) ==
    { [id |-> spec[k].Id, description |-> spec[k].Description,
       direction |-> DirectionName(spec[k].Direction),
       labels |-> spec[k].Labels,
       v4_cidr_blocks |-> spec[k].V4CidrBlocks,
       protocol |-> ProtocolOf(spec[k]),
       port |-> FlatPorts(spec[k].Ports).port,
       from_port |-> FlatPorts(spec[k].Ports).from_port,
       to_port |-> FlatPorts(spec[k].Ports).to_port] : k \in 1..Len(spec) }

RulesInit ==
    /\ NoBucket
    /\ NoSweep
    /\ NoDefaults
    /\ NoInstance
    /\ NoRun
    /\ NoSDKRequest
    /\ NoTags
    /\ NoCheck
    /\ NoGrants
    /\ rules \in RuleLists \cup {TestFlattenRulesSpec}
    /\ flatRules = << >>

FlattenRules ==
    /\ flatRules = << >>
    /\ flatRules' = <<flattenSecurityGroupRulesSpec(rules)>>
    /\ UNCHANGED <<rules, bucketVars, sweepVars, defaultsVars, nicVars, runVars, sdkVars,
            tagVars, checkVars, grantVars>>

RulesNext == FlattenRules

RulesSpec == RulesInit /\ [][RulesNext]_vars

----------------------------------------------------------------------------
(* The sweepers testSweepMDBClickHouseCluster and                           *)
(* testSweepBillingCloudBinding: the resources of the test account are      *)
(* listed and each of them is swept by sweepWithRetry.  One try of the     *)
(* ClickHouse sweeper turns the deletion protection of the cluster off and  *)
(* deletes it; one try of the billing sweeper binds the cloud to the other  *)
(* billing account.  The answers of the API are chosen by the environment. *)

\* the largest number of listed resources
MaxListed == 2
\* the largest conf.MaxRetries of a sweeper run
MaxRunRetries == 2

ResourceIds == <<"r1", "r2", "r3">>

\* the lists of resources a listing yields
Listings == { [k \in 1..n |-> ResourceIds[k]] : n \in 0..MaxListed }

\* the update request changes nothing
NoChangesDetected == Err("grpc", "InvalidArgument", 0, "No changes detected")

\* the errors an API call of a sweeper returns
SweepCallErrors == {GrpcNotFound, GrpcUnavailable, NoChangesDetected}

\* the errors sdkop.Wait returns
SweepWaitErrors ==
    {TimeoutFailure, Err("operation", "FailedPrecondition", 0, "cluster is busy")}

\* the errors sdkop.Response returns
SweepResponseErrors == {Err("operation", "NotFound", 0, "cluster not found")}

\* errorMessage: the message of the status of the error
errorMessage(err) == err.msg

\* strings.EqualFold for the messages of the model
ToLower(msg) == IF msg = "No changes detected" THEN "no changes detected" ELSE msg
EqualFold(a, b) == ToLower(a) = ToLower(b)

\* handleSweepOperation that returns the NotFound of the call as well
handleSweepOperationStrict(callError, waitError, respError) ==
    IF IsErr(callError) THEN [waited |-> FALSE, err |-> callError]
    ELSE IF IsErr(waitError) THEN [waited |-> TRUE, err |-> waitError]
    ELSE [waited |-> TRUE, err |-> respError]

\* handleSweepOperation(ctx, conf, op, err): callError is the error of the API call,
\* waitError what sdkop.Wait returns and respError what sdkop.Response returns
handleSweepOperation(callError, waitError, respError) ==
    IF IsErr(callError)
    THEN [waited |-> FALSE,
          err |-> IF isStatusWithCode(callError, "NotFound") THEN Nil ELSE callError]
    ELSE IF IsErr(waitError) THEN [waited |-> TRUE, err |-> waitError]
    ELSE [waited |-> TRUE, err |-> respError]

\* the unprotect step that lets every error pass
UnprotectPassesAlways(err) == TRUE

\* err == nil || strings.EqualFold(errorMessage(err), "no changes detected")
UnprotectPasses(err) ==
    ~IsErr(err) \/ EqualFold(errorMessage(err), "no changes detected")

\* result.ErrorOrNil() that is nil whatever failed
ErrorOrNilDropped(errs) == Nil

\* result.ErrorOrNil(): one error was appended for each resource in errs
ErrorOrNil(errs) == IF errs = {} THEN Nil ELSE Plain("failed to sweep")

\* the first request of one try of the sweeper
FirstRequest(name) == IF name = "clickhouse" THEN "unprotect" ELSE "bind"

RunInit ==
    /\ NoBucket
    /\ NoDefaults
    /\ NoInstance
    /\ NoRules
    /\ NoSDKRequest
    /\ NoTags
    /\ NoCheck
    /\ NoGrants
    /\ sweeper \in {"clickhouse", "billing"}
    /\ listed \in Listings
    /\ at = 1
    /\ spc = "start"
    /\ unswept = {}
    /\ hso = NoHandle
    /\ ret = NotReturned
    /\ maxRetries \in 0..MaxRunRetries
    /\ try = 1
    /\ sfErrs = << >>
    /\ swept = "none"

\* the frame of the steps of a sweeper run
RunFrame == UNCHANGED <<sweeper, listed, maxRetries, bucketVars, defaultsVars,
                        nicVars, ruleVars, sdkVars, tagVars, checkVars, grantVars>>

\* configForSweepers: fails when the environment holds no token or no folder
ConfigForSweepers ==
    /\ spc = "start"
    /\ \E ok \in BOOLEAN :
         IF ok THEN spc' = "list" /\ ret' = ret
         ELSE spc' = "done" /\ ret' = WrapText(Plain("error getting client"))
    /\ UNCHANGED <<at, unswept, hso, try, sfErrs, swept>>
    /\ RunFrame

\* Cluster().List of the ClickHouse sweeper, the iterator of the billing sweeper
ListResources ==
    /\ spc = "list"
    /\ \E ans \in IF sweeper = "clickhouse" THEN {OK, GrpcUnavailable} ELSE {OK} :
         IF IsErr(ans) THEN spc' = "done" /\ ret' = WrapText(ans)
         ELSE spc' = "loop" /\ ret' = ret
    /\ UNCHANGED <<at, unswept, hso, try, sfErrs, swept>>
    /\ RunFrame

\* the loop over the listed resources: sweepWithRetry is called for the next one,
\* or the sweeper returns
RunLoop ==
    /\ spc = "loop"
    /\ IF at <= Len(listed)
       THEN /\ spc' = "retry"
            /\ try' = 1 /\ sfErrs' = << >> /\ swept' = "none"
            /\ ret' = ret
       ELSE /\ spc' = "done"
            /\ ret' = ErrorOrNil(unswept)
            /\ UNCHANGED <<try, sfErrs, swept>>
    /\ UNCHANGED <<at, unswept, hso>>
    /\ RunFrame

\* sweepWithRetryByFunc: the next try, or false after the last one
SweepWithRetry ==
    /\ spc = "retry"
    /\ IF SweepGoesOn(try, maxRetries)
       THEN /\ spc' = FirstRequest(sweeper)
            /\ UNCHANGED <<swept, unswept, at>>
       ELSE /\ swept' = "false"
            /\ unswept' = unswept \cup {listed[at]}
            /\ at' = at + 1
            /\ spc' = "loop"
    /\ UNCHANGED <<hso, try, sfErrs, ret>>
    /\ RunFrame

\* the request req is sent and handleSweepOperation handles its answer
SweepCall(req) ==
    \E callError \in SweepCallErrors \cup {Nil},
       waitError \in SweepWaitErrors \cup {Nil},
       respError \in SweepResponseErrors \cup {Nil} :
        LET out == handleSweepOperation(callError, waitError, respError) IN
        hso' = [req |-> req, id |-> listed[at], callErr |-> callError,
                waitErr |-> waitError, respErr |-> respError,
                waited |-> out.waited, err |-> out.err]

\* the sweep function returns err to sweepWithRetryByFunc
OnceReturns(err) ==
    /\ sfErrs' = Append(sfErrs, err)
    /\ IF IsErr(err)
       THEN /\ try' = try + 1
            /\ spc' = "retry"
            /\ UNCHANGED <<swept, at>>
       ELSE /\ swept' = "true"
            /\ at' = at + 1
            /\ spc' = "loop"
            /\ try' = try

\* sweepMDBClickHouseClusterOnce: deletion_protection is turned off
Unprotect ==
    /\ spc = "unprotect"
    /\ SweepCall("unprotect")
    /\ IF UnprotectPasses(hso'.err)
       THEN spc' = "delete" /\ UNCHANGED <<try, sfErrs, swept, at>>
       ELSE OnceReturns(hso'.err)
    /\ UNCHANGED <<unswept, ret>>
    /\ RunFrame

\* sweepMDBClickHouseClusterOnce: the cluster is deleted
DeleteCluster ==
    /\ spc = "delete"
    /\ SweepCall("delete")
    /\ OnceReturns(hso'.err)
    /\ UNCHANGED <<unswept, ret>>
    /\ RunFrame

\* sweepBillingCloudBindingOnce
BindBillableObject ==
    /\ spc = "bind"
    /\ SweepCall("bind")
    /\ OnceReturns(hso'.err)
    /\ UNCHANGED <<unswept, ret>>
    /\ RunFrame

RunNext ==
    \/ ConfigForSweepers
    \/ ListResources
    \/ RunLoop
    \/ SweepWithRetry
    \/ Unprotect
    \/ DeleteCluster
    \/ BindBillableObject

RunSpec == RunInit /\ [][RunNext]_vars

----------------------------------------------------------------------------
(* resourceYandexStorageBucketCreateBySDK: the CreateBucketRequest that is *)
(* built from the settings of the resource.                                *)

bucketACLOwnerFullControl == "bucket-owner-full-control"
bucketACLPublicRead == "public-read"
bucketACLPublicReadWrite == "public-read-write"
bucketACLAuthRead == "authenticated-read"
bucketACLPrivate == "private"

bucketACLAllowedValues ==
    {bucketACLOwnerFullControl, bucketACLPublicRead, bucketACLPublicReadWrite,
     bucketACLAuthRead, bucketACLPrivate}

ACL_Grant(permission, grantType) == [Permission |-> permission, GrantType |-> grantType]

\* mapACL: the grants of the canned ACL acl; no grants for any other string
mapACL(acl) ==
    CASE acl = bucketACLPublicRead ->
           << ACL_Grant("PERMISSION_READ", "GRANT_TYPE_ALL_USERS") >>
      [] acl = bucketACLPublicReadWrite ->
           << ACL_Grant("PERMISSION_READ", "GRANT_TYPE_ALL_USERS"),
              ACL_Grant("PERMISSION_READ", "GRANT_TYPE_ALL_USERS") >>
      [] acl = bucketACLAuthRead ->
           << ACL_Grant("PERMISSION_READ", "GRANT_TYPE_ALL_AUTHENTICATED_USERS") >>
      [] OTHER -> << >>

\* the values of anonymous_access_flags: an empty set, or one element with the
\* three flags
AccessFlagSets ==
    {<< >>} \cup { <<[list |-> l, read |-> r, config_read |-> c]>> :
                     l \in BOOLEAN, r \in BOOLEAN, c \in BOOLEAN }

\* getAnonymousAccessFlagsSDK: nil for an empty set
getAnonymousAccessFlagsSDK(value) ==
    IF Len(value) = 0 THEN [nil |-> TRUE, List |-> FALSE, Read |-> FALSE, ConfigRead |-> FALSE]
    ELSE [nil |-> FALSE, List |-> value[1].list, Read |-> value[1].read,
          ConfigRead |-> value[1].config_read]

\* the settings CreateBySDK reads with d.Get; acl is "" when it is not set
SDKSettings ==
    [bucket : {Bucket}, folder_id : {"", "b1g"},
     acl : bucketACLAllowedValues \cup {""},
     max_size : {0, 1024}, default_storage_class : {"", "COLD"},
     anonymous_access_flags : AccessFlagSets]

SDKInit ==
    /\ NoBucket
    /\ NoSweep
    /\ NoDefaults
    /\ NoInstance
    /\ NoRules
    /\ NoRun
    /\ NoTags
    /\ NoCheck
    /\ NoGrants
    /\ sdkData \in SDKSettings
    /\ request = NoRequest

\* the request of resourceYandexStorageBucketCreateBySDK
BuildCreateRequest ==
    /\ request = NoRequest
    /\ request' = [Name |-> sdkData.bucket,
                   FolderId |-> sdkData.folder_id,
                   AnonymousAccessFlags |->
                       getAnonymousAccessFlagsSDK(sdkData.anonymous_access_flags),
                   MaxSize |-> sdkData.max_size,
                   DefaultStorageClass |-> sdkData.default_storage_class,
                   Acl |-> [Grants |-> mapACL(sdkData.acl)]]
    /\ UNCHANGED <<sdkData, bucketVars, sweepVars, defaultsVars, nicVars, ruleVars,
                   runVars, tagVars, checkVars, grantVars>>

SDKNext == BuildCreateRequest

SDKSpec == SDKInit /\ [][SDKNext]_vars

----------------------------------------------------------------------------
(* resourceYandexStorageHandleTagsUpdate: the old and the new tags are     *)
(* compared and onUpdate or onDelete is invoked.                           *)

TagKeys == {"k1", "k2"}
TagValues == {"a", "b"}

\* the maps of tags
TagMaps == UNION { [ks -> TagValues] : ks \in SUBSET TagKeys }

\* the values of d.GetChange("tags")
RawTagMaps == {NilMap} \cup { [nil |-> FALSE, map |-> m] : m \in TagMaps }

\* convertTypesMap: nil for a value that is no map; the values of the map are
\* strings and are all kept
convertTypesMap(in) == IF in.nil THEN << >> ELSE in.map

\* len of a map
MapLen(m) == Cardinality(DOMAIN m)

\* the lists storageBucketTaggingFromMap can return: one tag for each key, in the
\* order the map is ranged over
storageBucketTaggingFromMap(tags) ==
    { list \in [1..MapLen(tags) -> [Key : DOMAIN tags, Value : TagValues]] :
        /\ \A k \in DOMAIN tags : \E n \in 1..MapLen(tags) :
              list[n] = [Key |-> k, Value |-> tags[k]]
        /\ \A n \in 1..MapLen(tags) : list[n].Value = tags[list[n].Key] }

needDelete(old, new) == MapLen(new) = 0

needUpdate(old, new) ==
    /\ MapLen(new) # 0
    /\ \/ MapLen(old) # MapLen(new)
       \/ \E k \in DOMAIN new : k \notin DOMAIN old \/ new[k] # old[k]

\* the errors a callback returns
CallbackErrors == {Nil, InternalError}

TagsInit ==
    /\ NoBucket
    /\ NoSweep
    /\ NoDefaults
    /\ NoInstance
    /\ NoRules
    /\ NoRun
    /\ NoSDKRequest
    /\ NoCheck
    /\ NoGrants
    /\ tagsOldRaw \in RawTagMaps
    /\ tagsNewRaw \in RawTagMaps
    /\ invoked = << >>
    /\ tagsErr = NotReturned

HandleTagsUpdate ==
    /\ tagsErr = NotReturned
    /\ LET tagsOld == convertTypesMap(tagsOldRaw)
           tagsNew == convertTypesMap(tagsNewRaw)
       IN IF ~needUpdate(tagsOld, tagsNew) /\ ~needDelete(tagsOld, tagsNew)
          THEN /\ invoked' = << >>
               /\ tagsErr' = Nil
          ELSE \E err \in CallbackErrors :
                 /\ tagsErr' = err
                 /\ IF needUpdate(tagsOld, tagsNew)
                    THEN \E tags \in storageBucketTaggingFromMap(tagsNew) :
                           invoked' = <<[callback |-> "onUpdate", tags |-> tags,
                                         err |-> err]>>
                    ELSE invoked' = <<[callback |-> "onDelete", tags |-> << >>,
                                       err |-> err]>>
    /\ UNCHANGED <<tagsOldRaw, tagsNewRaw, bucketVars, sweepVars, defaultsVars,
                   nicVars, ruleVars, runVars, sdkVars, checkVars, grantVars>>

TagsNext == HandleTagsUpdate

TagsSpec == TagsInit /\ [][TagsNext]_vars

----------------------------------------------------------------------------
(* waitConditionStable with a check that returns what it likes.  The loop   *)
(* counters are checks and subchecks, as in Delete.                         *)

\* what check returns: ok and err
CheckResults == [ok : BOOLEAN, err : {Nil, InternalError}]

WaitStableInit ==
    /\ NoBucket
    /\ NoSweep
    /\ NoDefaults
    /\ NoInstance
    /\ NoRules
    /\ NoRun
    /\ NoSDKRequest
    /\ NoTags
    /\ NoGrants
    /\ nchecks = 0
    /\ streak = 0
    /\ checked = NotChecked
    /\ stableErr = NotReturned

\* one call of check and what waitConditionStable does with its result
WaitStableCheck ==
    /\ stableErr = NotReturned
    /\ \E res \in CheckResults :
        LET out == waitConditionStable(res.ok, res.err) IN
        /\ checked' = res
        /\ nchecks' = nchecks + 1
        /\ streak' = IF res.ok /\ res.err = Nil THEN streak + 1 ELSE 0
        /\ CASE out = "nil" -> stableErr' = Nil /\ UNCHANGED <<checks, subchecks>>
             [] out = "err" -> stableErr' = res.err /\ UNCHANGED <<checks, subchecks>>
             [] out = "timeout" ->
                  stableErr' = Plain("timeout exceeded") /\ UNCHANGED <<checks, subchecks>>
             [] OTHER -> StableNext(res.ok) /\ stableErr' = stableErr
    /\ UNCHANGED <<id, isNew, call, cfg, pc, result, attempt, depth, step, reqVars,
                   basicVars, waitVars, extVars, dataVars>>
    /\ UNCHANGED <<sweepVars, defaultsVars, nicVars, ruleVars, runVars, sdkVars,
                   tagVars, grantVars>>

WaitStableNext == WaitStableCheck

\* check returns every time it is called
WaitStableSpec ==
    WaitStableInit /\ [][WaitStableNext]_vars /\ WF_vars(WaitStableCheck)

----------------------------------------------------------------------------
(* resourceYandexStorageBucketGrantsUpdate with the grants it reads and    *)
(* the PutBucketAcl requests it sends.                                     *)

\* the largest number of grant blocks of the configuration
MaxGrantBlocks == 2

\* the grantees of the model: id, type and uri
Grantees ==
    { [id |-> "user1", type |-> "CanonicalUser", uri |-> ""],
      [id |-> "", type |-> "Group",
       uri |-> "http://acs.amazonaws.com/groups/global/AllUsers"] }

\* the grant blocks: a grantee and a set of permissions
RawGrants ==
    { [id |-> ge.id, type |-> ge.type, uri |-> ge.uri, permissions |-> ps] :
        ge \in Grantees, ps \in SUBSET Permissions }

\* d.Get("grant").(*schema.Set).List(): the blocks of the set, in some order
GrantLists ==
    UNION { {list \in [1..n -> RawGrants] :
                \A j, k \in 1..n : j # k => list[j] # list[k]} :
            n \in 0..MaxGrantBlocks }

\* the owners GetBucketAcl returns
Owners == {"owner1", "owner2"}

\* permissions.List(): the permissions of a block, in the order of the list
PermissionList(ps) ==
    SelectSeq(<<"FULL_CONTROL", "READ", "WRITE">>, LAMBDA perm : perm \in ps)

\* the grantee of a block: the fields that are not empty are set
Grantee(rawGrant) == [ID |-> rawGrant.id, Type |-> rawGrant.type, URI |-> rawGrant.uri]

\* the grants of one block: one for each of its permissions
BlockGrants(rawGrant) ==
    LET perms == PermissionList(rawGrant.permissions)
    IN [n \in 1..Len(perms) |-> [Grantee |-> Grantee(rawGrant), Permission |-> perms[n]]]

RECURSIVE GrantsOf(_)
\* the grants of the request: those of the blocks in the order of the list
GrantsOf(rawGrants) ==
    IF rawGrants = << >> THEN << >>
    ELSE BlockGrants(Head(rawGrants)) \o GrantsOf(Tail(rawGrants))

\* the validation of the first block only
GrantsValidationOfFirst(rawGrants) ==
    IF rawGrants # << >> /\ validateBucketPermissions(rawGrants[1].permissions) # ""
    THEN Validation(validateBucketPermissions(rawGrants[1].permissions))
    ELSE Nil

\* the error of the first block of the list that validateBucketPermissions
\* rejects, Nil when it rejects none
GrantsValidation(rawGrants) ==
    IF \E k \in 1..Len(rawGrants) : validateBucketPermissions(rawGrants[k].permissions) # ""
    THEN LET k == CHOOSE j \in 1..Len(rawGrants) :
                    /\ validateBucketPermissions(rawGrants[j].permissions) # ""
                    /\ \A n \in 1..(j - 1) :
                         validateBucketPermissions(rawGrants[n].permissions) = ""
         IN Validation(validateBucketPermissions(rawGrants[k].permissions))
    ELSE Nil

\* the PutBucketAclInput of resourceYandexStorageBucketACLUpdate
CannedAclInput(acl) ==
    [Bucket |-> Bucket, ACL |-> IF acl = "" THEN bucketACLPrivate ELSE acl,
     Grants |-> << >>, Owner |-> ""]

\* the PutBucketAclInput of resourceYandexStorageBucketGrantsUpdate
GrantsInput(rawGrants, owner) ==
    [Bucket |-> Bucket, ACL |-> "", Grants |-> GrantsOf(rawGrants), Owner |-> owner]

GrantsInit ==
    /\ NoBucket
    /\ NoSweep
    /\ NoDefaults
    /\ NoInstance
    /\ NoRules
    /\ NoRun
    /\ NoSDKRequest
    /\ NoTags
    /\ NoCheck
    /\ grantData \in [acl : {"", bucketACLPublicRead}, grant : GrantLists]
    /\ gpc = "start"
    /\ aclOwner = ""
    /\ puts = << >>
    /\ grantsErr = NotReturned

\* the frame of the steps of GrantsUpdate
GrantsFrame ==
    /\ UNCHANGED <<id, isNew, call, cfg, pc, result, depth, step, reqVars, stableVars,
                   basicVars, waitVars, extVars, dataVars>>
    /\ UNCHANGED <<sweepVars, defaultsVars, nicVars, ruleVars, runVars, sdkVars,
                   tagVars, checkVars>>
    /\ grantData' = grantData

\* without grants the canned ACL is put
GrantsStart ==
    /\ gpc = "start"
    /\ gpc' = IF Len(grantData.grant) = 0 THEN "acl" ELSE "get"
    /\ UNCHANGED <<attempt, aclOwner, puts, grantsErr>>
    /\ GrantsFrame

\* resourceYandexStorageBucketACLUpdate: PutBucketAcl with the canned ACL
GrantsFallback ==
    /\ gpc = "acl"
    /\ puts' = Append(puts, CannedAclInput(grantData.acl))
    /\ \E ans \in HandlerAnswers("PutBucketAcl") :
         IF retryFlakyS3Responses(ans)
         THEN attempt' = attempt + 1 /\ UNCHANGED <<gpc, grantsErr>>
         ELSE /\ attempt' = 0
              /\ gpc' = "done"
              /\ grantsErr' = IF IsErr(ans) THEN WrapText(WrapText(ans)) ELSE Nil
    /\ aclOwner' = aclOwner
    /\ GrantsFrame

\* GetBucketAcl, and the validation of the permissions of every block
GrantsGetAcl ==
    /\ gpc = "get"
    /\ \E ans \in HandlerAnswers("GetBucketAcl"), owner \in Owners :
         IF retryFlakyS3Responses(ans)
         THEN attempt' = attempt + 1 /\ UNCHANGED <<gpc, grantsErr, aclOwner>>
         ELSE /\ attempt' = 0
              /\ IF IsErr(ans)
                 THEN gpc' = "done" /\ grantsErr' = WrapText(ans) /\ aclOwner' = aclOwner
                 ELSE /\ aclOwner' = owner
                      /\ IF IsErr(GrantsValidation(grantData.grant))
                         THEN /\ gpc' = "done"
                              /\ grantsErr' = GrantsValidation(grantData.grant)
                         ELSE gpc' = "put" /\ grantsErr' = grantsErr
    /\ puts' = puts
    /\ GrantsFrame

\* PutBucketAcl with the grants and the owner that was read
GrantsPutAcl ==
    /\ gpc = "put"
    /\ puts' = Append(puts, GrantsInput(grantData.grant, aclOwner))
    /\ \E ans \in HandlerAnswers("PutBucketAcl") :
         IF retryFlakyS3Responses(ans)
         THEN attempt' = attempt + 1 /\ UNCHANGED <<gpc, grantsErr>>
         ELSE /\ attempt' = 0
              /\ gpc' = "done"
              /\ grantsErr' = IF IsErr(ans) THEN WrapText(ans) ELSE Nil
    /\ aclOwner' = aclOwner
    /\ GrantsFrame

GrantsNext == GrantsStart \/ GrantsFallback \/ GrantsGetAcl \/ GrantsPutAcl

GrantsSpec == GrantsInit /\ [][GrantsNext]_vars

----------------------------------------------------------------------------
(* Properties *)

\* a request is sent in this step
Requested == lastReq' # "none" /\ tick' # tick

\* the answer is a not-found: NoSuchBucket, another HTTP 404 or gRPC NotFound
IsNotFound(ans) ==
    isAWSErr(ans, "NoSuchBucket", "") \/ isRequestFailure404(ans)
    \/ isStatusWithCode(ans, "NotFound")

\* C1: Delete is idempotent.  When DeleteBucket is answered NoSuchBucket, Delete
\* returns nil with this answer, and a call that has returned sends no request.
C1_DeleteIdempotent ==
    [][ /\ (call = "Delete" /\ Requested /\ lastReq' = "DeleteBucket"
            /\ isAWSErr(lastAns', "NoSuchBucket", ""))
           => (pc' = "done" /\ result' = Nil)
        /\ pc = "done" => ~Requested ]_vars

C1_Witness ==
    /\ call = "Delete" /\ pc = "done"
    /\ lastReq = "DeleteBucket" /\ lastAns = NoSuchBucket
    /\ result = Nil

\* C2: whichever request of Read ends answered not-found, Read returns with the
\* identifier cleared and without an error.
C2_ReadClearsOnNotFound ==
    (call = "Read" /\ pc = "done" /\ failed # << >> /\ IsNotFound(lastAns))
        => (id = "" /\ result = Nil)

\* Create has returned and the creation of the bucket had failed
CreationFailed ==
    \/ lastReq = "none"
    \/ lastReq = "CreateBucket" /\ IsErr(lastAns)
    \/ waitFor = "Create"

\* C3: when Create returns after the bucket was created, the identifier is the
\* bucket name; when the creation failed, the identifier is empty.
C3_IdIsBucketAtReturn ==
    (call = "Create" /\ pc = "done")
        => IF CreationFailed THEN id = "" ELSE id = bucket /\ id # ""

\* C4: Delete with force_destroy returns, whatever the server answers.
C4_DeleteTerminates ==
    (call = "Delete" /\ cfg.force /\ pc # "done") ~> (pc = "done")

\* the call returns an error, or waitOperation has returned one to the step
ErrorOnTheWay ==
    \/ pc = "done" /\ IsErr(result)
    \/ pc = "WaitDone" /\ IsErr(waitErr)

\* C5 as stated: a request that ended in an error makes the call return an error,
\* but for DeleteBucket answered NoSuchBucket and for a request of a read answered
\* not-found, the identifier cleared.
C5_EveryErrorReturned ==
    failed # << >> =>
        \/ ErrorOnTheWay
        \/ call = "Delete" /\ lastReq = "DeleteBucket"
           /\ isAWSErr(lastAns, "NoSuchBucket", "")
        \/ id = "" /\ IsNotFound(lastAns)
           /\ lastReq \in {ReadBasicOrder[i] : i \in DOMAIN ReadBasicOrder} \cup {"Get"}

\* the errors of requests the calls do not return
C5_Tolerated ==
    LET code == lastAns.code IN
    \/ /\ lastReq = "DeleteBucket"
       /\ code = "NoSuchBucket" \/ (code = "BucketNotEmpty" /\ cfg.force)
    \/ lastReq = "HeadBucket" /\ isRequestFailure404(lastAns)
    \/ lastReq = "GetBucketPolicy" /\ code \in {"NoSuchBucketPolicy", "AccessDenied"}
    \/ lastReq = "GetBucketCors" /\ isRequestFailure404(lastAns)
    \/ /\ lastReq = "GetBucketWebsite"
       /\ isRequestFailure404(lastAns) \/ code = "NotImplemented"
    \/ /\ lastReq = "GetBucketAcl"
       /\ (code = "NoSuchBucket" /\ ~isNew) \/ code \in {"AccessDenied", "Forbidden"}
    \/ /\ lastReq = "GetObjectLockConfiguration"
       /\ code \in {"ObjectLockConfigurationNotFoundError", "AccessDenied"}
    \/ lastReq = "GetBucketLifecycleConfiguration"
       /\ code = "NoSuchLifecycleConfiguration"
    \/ lastReq = "GetBucketEncryption" /\ lastAns = SSENotFound
    \/ lastReq \in {"Get", "GetHTTPSConfig"}
    \/ /\ lastReq \in {"Update", "SetHTTPSConfig", "DeleteHTTPSConfig"}
       /\ code = "NotFound"

\* C5: a request that ended in an error, the attempts of its retries used up,
\* makes the call return an error unless the error is one of the tolerated ones.
C5_ErrorsReturnedButTolerated ==
    (failed # << >> /\ ~C5_Tolerated) => ErrorOnTheWay

\* Read returned nil, the identifier kept, although GetHTTPSConfig ended in an error
C5_Witness ==
    /\ call = "Read" /\ pc = "done" /\ result = Nil /\ id # ""
    /\ failed = <<"GetHTTPSConfig", "Unavailable">>

\* C6: a call that returns a validation error has sent no request.
C6_ValidationBeforeRequests ==
    (pc = "done" /\ result.kind = "validation") => ~sent

OperationError(err, wrap) ==
    [kind |-> "operation", code |-> err.code, status |-> 0, msg |-> err.msg,
     wrap |-> wrap]

\* the wait has observed that the operation ended with an error
ObservedOperationError ==
    pc = "WaitDone" /\ seen = "done" /\ IsErr(opSrv.err)

C9_NoPollAfterDeadline ==
    [][ elapsed >= TimeoutTicks => ~(Requested /\ lastReq' = "OperationGet") ]_vars

\* C10: once the context is cancelled no request is sent, a status poll, a cancel
\* or a rollback no more than any other, and the wait returns the cancellation
\* failure; the operation on the server goes its own way.
C10_CancelEndsWait ==
    [][ /\ cancelled => ~Requested
        /\ (Waiting /\ cancelled /\ pc' # pc)
           => (pc' = "WaitDone" /\ waitErr' = CancelFailure)
        /\ (pc = "WaitDone" /\ waitErr = CancelFailure /\ pc' # pc)
           => (pc' = "done" /\ result'.kind = "cancelled") ]_vars

\* the call returned the cancellation failure, and the operation, never observed
\* done by a poll, has ended on the server
C10_Witness ==
    /\ pc = "done" /\ result.kind = "cancelled" /\ cancelled
    /\ seen # "done" /\ opSrv.state = "done"

\* the outcome of a wait that returned err
WaitOutcome(err) ==
    CASE err = Nil -> "success"
      [] err.kind = "operation" -> "operation error"
      [] err = TimeoutFailure -> "timed out"
      [] err = CancelFailure -> "cancelled"
      [] err.kind = "grpc" -> "transport failure"
      [] OTHER -> "unknown"

FourOutcomes == {"success", "operation error", "timed out", "cancelled"}

\* A wait on an operation the call returned ends in one of outcomes, the one of
\* what ended it; the outcome stays as it is while the step has not gone on; a timeout and a cancellation
\* make the step return a failure of their own kind, an operation error makes it
\* return nothing of these kinds.
WaitEndsAmong(outcomes) ==
    /\ (pc' = "WaitDone" /\ opSrv' # NoOp) => WaitOutcome(waitErr') \in outcomes
    /\ (Waiting /\ pc' = "WaitDone")
       => WaitOutcome(waitErr') =
            IF cancelled THEN "cancelled"
            ELSE IF pc = "WaitSleep" THEN "timed out"
            ELSE IF seen' # "done" THEN "transport failure"
            ELSE IF opSrv.err = Nil THEN "success" ELSE "operation error"
    /\ (pc = "WaitDone" /\ pc' = "WaitDone") => waitErr' = waitErr
    /\ (pc = "WaitDone" /\ pc' # pc
        /\ WaitOutcome(waitErr) \in {"timed out", "cancelled"})
       => (pc' = "done" /\ result'.kind = waitErr.kind)
    /\ (pc = "WaitDone" /\ pc' = "done"
        /\ WaitOutcome(waitErr) = "operation error")
       => result'.kind \notin {"timeout", "cancelled"}

C12_UpdateMask ==
    [][ /\ (Requested /\ lastReq' = "Update")
           => /\ pc = "ExtendedUpdate"
              /\ update.paths = changes
              /\ update.fields = changes
              /\ changes \in SUBSET ExtendedProperties
        /\ pc = "UpdateExtended"
           => (pc' = "ExtendedUpdate"
               <=> /\ id # ""
                   /\ changes' # {}
                   /\ ~(isNew /\ resourceYandexStorageRequireExternalSDK(cfg)))
        /\ (pc' = "ExtendedUpdate" /\ pc # pc') => pc = "UpdateExtended" ]_vars

\* the Update request of a bucket just created through the S3 client, with two
\* changed properties in its mask
C12_Witness ==
    /\ call = "Create" /\ isNew /\ ~cfg.folder
    /\ lastReq = "Update" /\ pc = "WaitPoll"
    /\ changes = {"default_storage_class", "max_size"}
    /\ update = UpdateBucketRequest(changes, changes)

\* Read is at work: ReadBasic or ReadExtended, called by the host or by Update
Reading == pc \in {"ReadBasic", "ReadExtended", "GetHTTPSConfig"}

\* C13: no step of Read, whatever the server answers, changes the value of
\* access_key, secret_key, force_destroy, bucket_prefix or acl, and none of them
\* is among the attributes the step sets.
C13_ReadKeepsLocalAttributes ==
    [][ Reading => /\ \A a \in LocalAttributes : attrs'[a] = attrs[a]
                   /\ wrote' \cap LocalAttributes = {} ]_vars

\* Read has come to its end with every request answered, the grants and the https
\* configuration set from the answers, and the configured values are in place
C13_Witness ==
    /\ call = "Read" /\ pc = "done" /\ result = Nil
    /\ lastReq = "GetHTTPSConfig" /\ lastAns = OK
    /\ wrote = {"https"}
    /\ \A a \in LocalAttributes : attrs[a] = "configured"

\* the requests that change the bucket or one of its settings
MutatingRequests ==
    { "CreateBucket", "DeleteBucket", "DeleteObjects",
      "PutBucketPolicy", "DeleteBucketPolicy", "PutBucketCors", "DeleteBucketCors",
      "PutBucketWebsite", "DeleteBucketWebsite", "PutBucketVersioning",
      "PutBucketAcl", "PutBucketLogging", "PutBucketLifecycleConfiguration",
      "DeleteBucketLifecycle", "PutBucketEncryption", "DeleteBucketEncryption",
      "PutObjectLockConfiguration", "PutBucketTagging", "DeleteBucketTagging" }

\* C14: a mutating request (create bucket, put or delete of a bucket setting,
\* delete bucket) that is answered with an error is not sent again: the failing
\* answer is the final one of the request.
C14_MutatingNotRetried ==
    [][ (Requested /\ lastReq' \in MutatingRequests /\ IsErr(lastAns'))
        => failed' = <<lastReq', lastAns'.code>> ]_vars

\* the step of Update at work: 1 UpdateBasic, 2 UpdateExtended, 3 Read; 0 when no
\* step of Update is at work
UpdateStep ==
    CASE pc \in {"UpdateBasic", "Handler", "HandlerWait"} -> 1
      [] pc \in {"UpdateExtended", "ExtendedUpdate", "ExtendedHTTPS"} -> 2
      [] pc \in {"WaitPoll", "WaitSleep", "WaitDone"} /\ waitFor # "Create" -> 2
      [] Reading -> 3
      [] OTHER -> 0

\* C18: Update, called by the host or by Create, runs UpdateBasic, UpdateExtended
\* and Read in this order; it goes on to the next step only with no error
\* returned, a step that returns an error makes Update return this error at
\* once, and an Update or a Create that returns no error returns from Read.
C18_UpdateStepsInOrder ==
    [][ call' \in {"Update", "Create"}
        => /\ (UpdateStep = 0 /\ UpdateStep' # 0) => UpdateStep' = 1
           /\ UpdateStep # 0 => UpdateStep' \in {UpdateStep, UpdateStep + 1, 0}
           /\ (UpdateStep # 0 /\ UpdateStep' = UpdateStep + 1)
              => (result' = Nil /\ pc' \in {"UpdateExtended", "ReadBasic"})
           /\ (UpdateStep # 0 /\ UpdateStep' = 0)
              => (pc' = "done" /\ (UpdateStep < 3 => IsErr(result')))
           /\ (pc # "done" /\ pc' = "done" /\ result' = Nil) => UpdateStep = 3 ]_vars

\* Create has returned no error after the last request of Read
C18_Witness ==
    /\ call = "Create" /\ pc = "done" /\ result = Nil
    /\ id = bucket /\ lastReq = "GetHTTPSConfig"

\* the requests the handler of property p and the waits after them send
PropertyRequests(p) ==
    UNION { {HandlerPlan(p, a)[i] : i \in 1..Len(HandlerPlan(p, a))} :
            a \in PropertyValues(p) }
    \cup {"GetBucketCors" : q \in {p} \cap {"cors_rule"}}
    \cup {"GetBucketWebsite" : q \in {p} \cap {"website"}}

\* C19: UpdateBasic visits the properties in the order policy, cors_rule, website,
\* versioning, acl, grant, logging, lifecycle_rule,
\* server_side_encryption_configuration, object_lock_configuration, tags, one
\* after the other; it passes over a property or invokes its handler, never the
\* one of acl for a new resource; the requests sent are those of the handler of
\* the property it is at; an error of a handler makes UpdateBasic return it at
\* this property, and UpdateExtended follows the last property alone.
C19_HandlersInOrder ==
    [][ /\ UpdateBasicOrder =
             << "policy", "cors_rule", "website", "versioning", "acl", "grant",
                "logging", "lifecycle_rule", "server_side_encryption_configuration",
                "object_lock_configuration", "tags" >>
        /\ UpdateStep = 1
           => /\ step \in 1..Len(UpdateBasicOrder)
              /\ pc' = "UpdateBasic" => step' = step + 1
              /\ pc' \in {"Handler", "HandlerWait"}
                 => /\ step' = step
                    /\ ~(UpdateBasicOrder[step] = "acl" /\ isNew)
              /\ Requested => lastReq' \in PropertyRequests(UpdateBasicOrder[step])
              /\ pc' = "UpdateExtended" => step = Len(UpdateBasicOrder)
              /\ pc' = "done" => (IsErr(result') /\ step' = step)
              /\ pc' \in {"UpdateBasic", "Handler", "HandlerWait", "UpdateExtended",
                          "done"}
        /\ (call = "Update" /\ pc = "done" /\ IsErr(result)) => ~Requested ]_vars

\* UpdateBasic has returned the error of the handler of versioning, the fourth
\* property, after the properties before it
C19_Witness ==
    /\ call = "Update" /\ pc = "done" /\ step = 4
    /\ lastReq = "PutBucketVersioning" /\ lastAns = InternalError
    /\ result = HandlerError(InternalError)

\* C20: sweepWithRetryByFunc calls sf conf.MaxRetries times at most and not at
\* all when conf.MaxRetries <= 0; no call follows one that returned no error; it
\* returns true when the last call returned no error, and it returns false when
\* conf.MaxRetries calls (none when conf.MaxRetries <= 0) all returned an error.
C20_SweepRetries ==
    LET calls == Len(sfErrs)
        limit == IF maxRetries > 0 THEN maxRetries ELSE 0
    IN /\ calls <= limit
       /\ \A k \in 1..(calls - 1) : IsErr(sfErrs[k])
       /\ swept = "true" <=> (calls > 0 /\ sfErrs[calls] = Nil)
       /\ swept = "false" => calls = limit

\* the third of four tries has swept
C20_Witness ==
    /\ swept = "true" /\ maxRetries = 4
    /\ Len(sfErrs) = 3 /\ IsErr(sfErrs[1]) /\ IsErr(sfErrs[2])

\* the boolean the string str parses as, the default false when it parses as none
BoolOfEnv(str) == IF ParseBool(str)[2] THEN FALSE ELSE ParseBool(str)[1]

\* C15: setDefaults keeps every setting that is configured; a string setting
\* that is not set takes the value of its environment variable when this is not
\* empty and the built-in default otherwise; a boolean setting that is null or
\* unknown takes the value its environment variable parses as, and false when
\* the variable parses as no boolean; max_retries and profile, when not set,
\* take their built-in defaults.
C15_DefaultsFillUnset ==
    defaulted # NoState
    => /\ \A f \in StringSettings :
            defaulted[f] =
              IF ValueString(config[f]) # "" THEN config[f]
              ELSE IF Getenv(EnvName(f)) # "" THEN StringValue(Getenv(EnvName(f)))
              ELSE StringValue(DefaultOf(f))
       /\ \A f \in BoolSettings :
            defaulted[f] =
              IF config[f].state = "known" THEN config[f]
              ELSE BoolValue(BoolOfEnv(Getenv(EnvName(f))))
       /\ \A f \in {"MaxRetries", "Profile"} :
            defaulted[f] =
              IF config[f].state = "known" THEN config[f]
              ELSE Known(DefaultOf(f))

\* the addresses of the instance that are not empty
AddressesOf(addr(_)) ==
    {addr(instance[k]) : k \in 1..Len(instance)} \ {""}

V4Address(iface) == iface.PrimaryV4Address.Address
V6Address(iface) == iface.PrimaryV6Address.Address

\* what flat, returned for the instance, has to be
FlatAsDescribed(flat) ==
    /\ Len(flat.nics) = Len(instance)
    /\ \A k \in 1..Len(instance) :
        LET nic == flat.nics[k]
            v4 == instance[k].PrimaryV4Address
            v6 == instance[k].PrimaryV6Address
        IN /\ {"ip_address", "nat"} \cap DOMAIN nic =
                IF v4.nil THEN {} ELSE {"ip_address", "nat"}
           /\ ~v4.nil => /\ nic["ip_address"] = v4.Address
                         /\ nic["nat"] = ~v4.OneToOneNat.nil
           /\ {"nat_ip_address", "nat_ip_version"} \cap DOMAIN nic =
                IF v4.nil \/ v4.OneToOneNat.nil THEN {}
                ELSE {"nat_ip_address", "nat_ip_version"}
           /\ (~v4.nil /\ ~v4.OneToOneNat.nil)
              => /\ nic["nat_ip_address"] = v4.OneToOneNat.Address
                 /\ nic["nat_ip_version"] = v4.OneToOneNat.IpVersion
           /\ {"ipv6", "ipv6_address"} \cap DOMAIN nic =
                IF v6.nil THEN {} ELSE {"ipv6", "ipv6_address"}
           /\ ~v6.nil => (nic["ipv6"] /\ nic["ipv6_address"] = v6.Address)
    /\ IF AddressesOf(NatAddress) # {} THEN flat.externalIP \in AddressesOf(NatAddress)
       ELSE IF AddressesOf(V6Address) # {} THEN flat.externalIP \in AddressesOf(V6Address)
       ELSE flat.externalIP = ""
    /\ IF AddressesOf(V4Address) # {} THEN flat.internalIP \in AddressesOf(V4Address)
       ELSE flat.internalIP = ""
    /\ instance = << >>
       => flat = [nics |-> << >>, externalIP |-> "", internalIP |-> ""]
    /\ \A t \in NetworkInterfacesTests :
        instance = t.instance
        => flat = [nics |-> t.want, externalIP |-> t.externalIP,
                   internalIP |-> t.internalIP]

ListingFailed ==
    ret \in {WrapText(Plain("error getting client")), WrapText(GrpcUnavailable)}

\* C21 as stated: a sweeper run returns an error iff some listed resource could not
\* be swept within its retries.
C21_ErrorIffUnswept ==
    spc = "done" => (IsErr(ret) <=> unswept # {})

\* C21: a sweeper run that got its configuration and its listing calls sweepWithRetry
\* for every listed resource, also after one of them could not be swept, and returns
\* an error iff at least one of them could not be swept within its retries; a run
\* whose configuration or listing failed returns that error and sweeps nothing.
C21_BestEffort ==
    /\ unswept \subseteq {listed[k] : k \in 1..(at - 1)}
    /\ spc = "done"
       => IF ListingFailed THEN at = 1 /\ unswept = {} /\ hso = NoHandle
          ELSE /\ at = Len(listed) + 1
               /\ IsErr(ret) <=> unswept # {}

\* the first of two resources could not be swept, the second was swept, and the
\* sweeper returned an error
C21_Witness ==
    /\ spc = "done" /\ Len(listed) = 2
    /\ unswept = {listed[1]} /\ swept = "true" /\ IsErr(ret)

\* C22: handleSweepOperation returns nil without waiting when the API call failed
\* with NotFound; for any other error of the call it returns that error without
\* waiting; otherwise it waits and returns the error of the wait or, when the wait
\* succeeded, the error of the operation's response.
C22_HandleSweepOperation ==
    hso.req # "none"
    => /\ hso.callErr = GrpcNotFound => ~hso.waited /\ hso.err = Nil
       /\ (IsErr(hso.callErr) /\ hso.callErr # GrpcNotFound)
          => ~hso.waited /\ hso.err = hso.callErr
       /\ ~IsErr(hso.callErr)
          => /\ hso.waited
             /\ hso.err = IF IsErr(hso.waitErr) THEN hso.waitErr ELSE hso.respErr

\* the request was answered NotFound and handleSweepOperation returned nil at once
C22_Witness ==
    /\ hso.req = "delete" /\ hso.callErr = GrpcNotFound
    /\ ~hso.waited /\ hso.err = Nil /\ swept = "true"

\* the unprotect request the handle is about succeeded, was answered NotFound, or
\* failed with the message "no changes detected"
Unprotected(handle) ==
    \/ ~IsErr(handle.callErr) /\ ~IsErr(handle.err)
    \/ handle.callErr = GrpcNotFound
    \/ IsErr(handle.err) /\ ToLower(handle.err.msg) = "no changes detected"

\* C23: sweepMDBClickHouseClusterOnce comes to send the Delete request for a
\* cluster only from an unprotect request for this cluster that succeeded, was
\* answered NotFound or failed with the message "no changes detected"; on any
\* other failure of the unprotect step it returns that error and the Delete
\* request is not sent.
C23_DeleteAfterUnprotect ==
    [][ /\ spc' = "delete"
           => spc = "unprotect" /\ hso'.req = "unprotect" /\ Unprotected(hso')
        /\ spc = "delete"
           => hso.req = "unprotect" /\ hso.id = listed[at] /\ hso'.req = "delete"
              /\ hso'.id = hso.id
        /\ (spc = "unprotect" /\ ~Unprotected(hso'))
           => /\ spc' = "retry"
              /\ IsErr(hso'.err)
              /\ sfErrs' = Append(sfErrs, hso'.err) ]_vars

\* the unprotect request failed with "No changes detected" and the Delete request
\* is sent next
C23_Witness ==
    /\ spc = "delete" /\ hso.req = "unprotect"
    /\ hso.callErr = NoChangesDetected /\ hso.err = NoChangesDetected

\* the grants of the request as pairs of grantee and permission
GrantedBy(req) ==
    { <<req.Acl.Grants[k].GrantType, req.Acl.Grants[k].Permission>> :
        k \in 1..Len(req.Acl.Grants) }

\* C24: the request CreateBySDK builds for the canned ACL public-read-write grants
\* all users READ and WRITE; for public-read it grants all users READ only, for
\* authenticated-read all authenticated users READ only, and for private and
\* bucket-owner-full-control it grants nothing.
C24_CannedAclGrants ==
    (request # NoRequest /\ sdkData.acl \in bucketACLAllowedValues)
    => GrantedBy(request) =
         CASE sdkData.acl = bucketACLPublicReadWrite ->
                {<<"GRANT_TYPE_ALL_USERS", "PERMISSION_READ">>,
                 <<"GRANT_TYPE_ALL_USERS", "PERMISSION_WRITE">>}
           [] sdkData.acl = bucketACLPublicRead ->
                {<<"GRANT_TYPE_ALL_USERS", "PERMISSION_READ">>}
           [] sdkData.acl = bucketACLAuthRead ->
                {<<"GRANT_TYPE_ALL_AUTHENTICATED_USERS", "PERMISSION_READ">>}
           [] OTHER -> {}

\* a step of Create or Update has cleared the identifier and the call goes on
IdCleared ==
    /\ id = "" /\ call \in {"Create", "Update"}
    /\ \/ pc \in {"UpdateBasic", "Handler", "HandlerWait", "UpdateExtended",
                  "ExtendedUpdate", "ExtendedHTTPS", "ReadBasic", "ReadExtended",
                  "GetHTTPSConfig"}
       \/ pc \in {"WaitPoll", "WaitSleep", "WaitDone"} /\ waitFor # "Create"

\* a request is sent in this step and the client did not reject it before sending
ReachesServer == Requested /\ lastAns' # InvalidParameter

\* C25: once a step of Update or Create has cleared the identifier because the
\* bucket was not found, no later step of the call sends a request to the server.
C25_NoRequestAfterClear ==
    [][IdCleared => ~ReachesServer]_vars

\* the key/value pairs of a list of tags
PairsOf(tags) == { <<tags[n].Key, tags[n].Value>> : n \in 1..Len(tags) }

\* C26: resourceYandexStorageHandleTagsUpdate invokes no callback when the old and
\* the new tags are equal; otherwise it invokes one callback, once: onDelete when
\* the new map is empty, and onUpdate with the key/value pairs of the new map, one
\* tag each, when it is not; it returns the error of the callback it invoked.
C26_TagsCallbacks ==
    tagsErr # NotReturned
    => LET tagsOld == convertTypesMap(tagsOldRaw)
           tagsNew == convertTypesMap(tagsNewRaw)
       IN IF tagsOld = tagsNew THEN invoked = << >> /\ tagsErr = Nil
          ELSE /\ Len(invoked) = 1
               /\ tagsErr = invoked[1].err
               /\ IF DOMAIN tagsNew = {}
                  THEN invoked[1].callback = "onDelete"
                  ELSE /\ invoked[1].callback = "onUpdate"
                       /\ Len(invoked[1].tags) = Cardinality(DOMAIN tagsNew)
                       /\ PairsOf(invoked[1].tags) =
                            { <<k, tagsNew[k]>> : k \in DOMAIN tagsNew }

\* C27: waitConditionStable returns nil only after 10 calls of check in a row
\* returned true; it returns the error of check at the first call that fails and
\* calls check no more; it runs 12 rounds and 120 calls of check at most and
\* returns "timeout exceeded" after the twelfth round that did not succeed; it
\* returns whatever check answers.
C27_WaitConditionStable ==
    /\ [](/\ stableErr = Nil => streak = 10
          /\ IsErr(checked.err) => stableErr = checked.err
          /\ nchecks <= 120 /\ checks < 12
          /\ stableErr = Plain("timeout exceeded")
             => checks = 11 /\ nchecks >= 12 /\ ~checked.ok)
    /\ [][stableErr # NotReturned => nchecks' = nchecks]_vars
    /\ <>(stableErr # NotReturned)

\* twelve rounds of nine calls that returned true and one that returned false
C27_Witness ==
    /\ stableErr = Plain("timeout exceeded")
    /\ nchecks = 120

\* the step is a check of Delete after DeleteBucket succeeded
StableCheck == call = "Delete" /\ pc = "HeadBucketStable" /\ Requested

\* C28: after a DeleteBucket that succeeded Delete returns nil only with the tenth
\* HeadBucket in a row that is answered 404; it returns an error when HeadBucket
\* fails with any other error, and when the bucket is still visible in the last
\* check of the last of the 12 rounds; until then it goes on checking.
C28_DeleteWaitsForGone ==
    [][ /\ pc' = "HeadBucketStable"
           => (pc = "HeadBucketStable"
               \/ (pc = "DeleteBucket" /\ lastReq' = "DeleteBucket" /\ lastAns' = OK
                   /\ subchecks' = 0 /\ checks' = 0))
        /\ StableCheck
           => /\ lastReq' = "HeadBucket"
              /\ pc' = "HeadBucketStable"
                 => subchecks' = IF isRequestFailure404(lastAns')
                                 THEN subchecks + 1 ELSE 0
              /\ (pc' = "done" /\ result' = Nil)
                 <=> (isRequestFailure404(lastAns') /\ subchecks = 9)
              /\ (IsErr(lastAns') /\ ~isRequestFailure404(lastAns'))
                 => pc' = "done" /\ IsErr(result')
              /\ (lastAns' = OK /\ checks = 11) => pc' = "done" /\ IsErr(result')
              /\ pc' = "done" \/ pc' = "HeadBucketStable" ]_vars

\* Delete returned nil after the bucket was gone in ten checks in a row
C28_Witness ==
    /\ call = "Delete" /\ pc = "done" /\ result = Nil
    /\ lastReq = "HeadBucket" /\ lastAns = NotFound404

\* C29: when DeleteBucket is answered BucketNotEmpty and force_destroy is false,
\* Delete returns an error with this answer, so that it neither lists object
\* versions nor deletes objects, and the identifier stays set; ListObjectVersions
\* and DeleteObjects are sent only by a Delete with force_destroy, after a
\* DeleteBucket that was answered BucketNotEmpty.
C29_NoForceNoEmptying ==
    [][ /\ (call = "Delete" /\ Requested /\ lastReq' = "DeleteBucket"
            /\ isAWSErr(lastAns', "BucketNotEmpty", "") /\ ~cfg.force)
           => (pc' = "done" /\ IsErr(result') /\ id' = id /\ id' # "")
        /\ (Requested /\ lastReq' \in {"ListObjectVersions", "DeleteObjects"})
           => (call = "Delete" /\ cfg.force)
        /\ (Requested /\ lastReq' = "ListObjectVersions")
           => (lastReq = "DeleteBucket" /\ isAWSErr(lastAns, "BucketNotEmpty", ""))
        /\ (Requested /\ lastReq' = "DeleteObjects")
           => (lastReq = "ListObjectVersions" /\ lastAns = OK) ]_vars

\* Delete without force_destroy returned the error of a bucket that is not empty
C29_Witness ==
    /\ call = "Delete" /\ pc = "done" /\ ~cfg.force
    /\ lastReq = "DeleteBucket" /\ lastAns = BucketNotEmpty
    /\ IsErr(result) /\ id = Bucket

\* a permission set with FULL_CONTROL alone, if at all, and WRITE only with READ
PermissionsValid(ps) ==
    /\ "FULL_CONTROL" \in ps => ps = {"FULL_CONTROL"}
    /\ "WRITE" \in ps => "READ" \in ps

\* the grants of the request input for the grantee and the permission
GrantsFor(input, grantee, perm) ==
    { n \in 1..Len(input.Grants) :
        input.Grants[n] = [Grantee |-> grantee, Permission |-> perm] }

====
